---- MODULE Spec2Model ----
(***************************************************************************)
(* A model of the core of go-ssb (cryptoscope/sbot):                       *)
(*   - the graph replicator (sbot/replicate.go): feedWants / blocked, the  *)
(*     updater, the imperative overrides and lister.Authorize;             *)
(*   - the debounce loop that drives the updater (sbot/replicate.go);      *)
(*   - the connection authorisation decider mkHandler (sbot/new.go);       *)
(*   - the blob store and the want manager (blobstore/store.go).           *)
(* Each subsystem has its own specification over the shared variables; the *)
(* variables of the other subsystems keep their initial values.            *)
(***************************************************************************)
EXTENDS Integers, Sequences, FiniteSets, TLC

VARIABLES
    \* ---- replicator (sbot/replicate.go)
    graph,       \* contacts graph: latest edge kind per ordered pair
    hopCount,    \* s.hopCount, fixed at construction
    feedWants,   \* r.current.feedWants
    blocked,     \* r.current.blocked
    upd,         \* position and locals of a running updater closure
    runLog,      \* history: how the current/last updater run relates to the state
    \* ---- debounce (sbot/replicate.go)
    deb,         \* the debounce goroutine: seq, timer, channel, position
    \* ---- mkHandler (sbot/new.go)
    node,        \* s.promisc, the stored feeds (s.Users), the invite guests
    obs,         \* the result of the call that has just returned, if any
    \* ---- blob store (blobstore/store.go)
    fs,          \* the files under the store's base path
    put,         \* the Put and Delete calls in progress
    wmgr,        \* the want manager: its want map and the Want calls in progress
    proc,        \* the wantProc of the createWants stream and what it wrote
    peers,       \* two connected sbots that exchange blobs
    ix,          \* the root log, the userFeeds multilog with its sink, ssb-drop-feed
    run,         \* the served indexes: state files, derived logs, runner positions
    ab,          \* the about messages the names plugin has indexed
    bot,         \* the life cycle of one Sbot: Close calls, connections, index goroutines
    ovr,         \* history: the feeds an imperative override is in force for
    slp,         \* the arguments and the results of two EncodeSLP calls
    gsp,         \* two sbots that replicate each other's feed over one connection
    prv,         \* one sbot's receive log, its Privates multilog, a private.read stream
    lk,          \* the locks of the want subsystem and the goroutines that take them
    num,         \* remoteWants of a wantProc with its values as 64-bit integers
    pinv         \* the peer-invites plugin: its index, the messages, the last call

replVars == <<graph, hopCount, feedWants, blocked, upd, runLog>>
\* the variables of the lock, arithmetic and peer-invite models
lastVars == <<lk, num, pinv>>
moreVars == <<bot, ovr, slp, gsp, prv, lastVars>>
extVars == <<peers, ix, run, ab, moreVars>>
vars ==
    <<graph, hopCount, feedWants, blocked, upd, runLog, deb, node, obs, fs, put, wmgr, proc,
      peers, ix, run, ab, bot, ovr, slp, gsp, prv, lk, num, pinv>>

(***************************************************************************)
(* Feed references.  A reference is (algorithm, public key); the set type  *)
(* StrFeedSet keys its members by the reference string, which contains     *)
(* both, so the classic and the gabby reference of one key are different   *)
(* members.                                                                *)
(***************************************************************************)
AlgoClassic == "ed25519"
AlgoGabby == "ggfeed-v1"

Keys == {"A", "B", "C", "D", "E"}

Ref(k) == [algo |-> AlgoClassic, key |-> k]
GabbyRef(k) == [algo |-> AlgoGabby, key |-> k]

\* s.KeyPair.Id
Self == Ref("A")

\* the feeds that take part in the contacts graph
Feeds == {Ref(k) : k \in Keys}
Others == Feeds \ {Self}

(***************************************************************************)
(* The contacts graph.  The builder keeps the latest edge per ordered      *)
(* pair.  The pairs that contact messages of the model are about:          *)
(*   A->B, A->C (follow or block by the local identity), B->C, C->D.       *)
(***************************************************************************)
EdgeKinds == {"none", "follow", "block"}

SelfPairs == {<<Self, Ref("B")>>, <<Self, Ref("C")>>}
PeerPairs == {<<Ref("B"), Ref("C")>>, <<Ref("C"), Ref("D")>>}
EdgePairs == SelfPairs \cup PeerPairs

KindsOf(p) == IF p \in SelfPairs THEN EdgeKinds ELSE {"none", "follow"}

Graphs == {g \in [EdgePairs -> EdgeKinds] : \A p \in EdgePairs : g[p] \in KindsOf(p)}

EmptyGraph == [p \in EdgePairs |-> "none"]

\* the follow chain A -> B -> C -> D
ChainGraph ==
    [p \in EdgePairs |-> IF p = <<Self, Ref("C")>> THEN "none" ELSE "follow"]

Edge(g, a, b) == IF <<a, b>> \in DOMAIN g THEN g[<<a, b>>] ELSE "none"

Follows(g, a) == {b \in Feeds : Edge(g, a, b) = "follow"}

\* graph.BlockedList(from) / spec 4.4 blocks(from)
BlockedList(g, from) == {b \in Feeds : Edge(g, from, b) = "block"}

\* one BFS level: everything already reached plus what it follows, without
\* the targets that `from` blocks
HopsStep(g, from, reached) ==
    (reached \cup UNION {Follows(g, a) : a \in reached}) \ BlockedList(g, from)

RECURSIVE HopsWalk(_, _, _, _)
HopsWalk(g, from, reached, depth) ==
    IF depth = 0 THEN reached
    ELSE HopsWalk(g, from, HopsStep(g, from, reached), depth - 1)

\* builder.Hops(from, max) / spec 4.4 hops(from, max): the feeds within max
\* follow edges of from, blocked targets excluded
Hops(g, from, max) == HopsWalk(g, from, {from}, max) \ {from}

(***************************************************************************)
(* lister.Authorize                                                        *)
(***************************************************************************)
Nil == "nil"
ErrBlocked == "peer blocked"
ErrDenied == "nope - access denied"

AuthorizeFeedWantsFirst(fw, bl, remote) ==
    IF remote \in fw THEN Nil
    ELSE IF remote \in bl THEN ErrBlocked
    ELSE ErrDenied

Authorize(fw, bl, remote) ==
    IF remote \in bl THEN ErrBlocked
    ELSE IF remote \in fw THEN Nil
    ELSE ErrDenied

(***************************************************************************)
(* The updater closure of makeUpdater, step by step.  Every call on a      *)
(* StrFeedSet takes that set's own lock and nothing else does, so each     *)
(* AddRef / Delete and the replacement of r.current.blocked is one step    *)
(* and other goroutines run in between.                                    *)
(***************************************************************************)
MaxHopCount == 2

\* no call has just returned
NoRef == [algo |-> "", key |-> ""]
NoObs ==
    [op |-> "none", remote |-> NoRef, listOk |-> TRUE, handler |-> "nil", err |-> Nil,
     ref |-> 0, maps |-> {}, dist |-> 0, len |-> 0, exp |-> 0, had |-> FALSE,
     sinkOk |-> FALSE, kind |-> ""]

\* the replicator's steps leave the other subsystems alone; a result that
\* was observed before the step is no longer the result of the last call
ReplFrame == UNCHANGED <<deb, node, fs, put, wmgr, proc, extVars>> /\ obs' = NoObs

UpdIdle == [pc |-> "idle", todo |-> {}]

NoRun == [st |-> "stale", fw0 |-> {}, bl0 |-> {}]

\* the result of a whole updater run on (fw, bl) with graph g
UpdaterWants(fw, g, hops) == (fw \cup Hops(g, Self, hops)) \ BlockedList(g, Self)
UpdaterBlocked(g) == BlockedList(g, Self)

\* any step of another goroutine makes a run in progress a disturbed one,
\* and ends the moment "right after a run"
Disturbed ==
    IF upd.pc = "idle" THEN NoRun ELSE [st |-> "dirty", fw0 |-> {}, bl0 |-> {}]

UpdHopWalkOneMore(g) == Hops(g, Self, hopCount + 1)

\* line 42: newWants := r.builder.Hops(self, hopCount)
UpdHopWalk(g) == Hops(g, Self, hopCount)

\* line 42-49: the hop walk and its listing
UpdStartBody ==
    /\ upd.pc = "idle"
    /\ upd' = [pc |-> "add", todo |-> UpdHopWalk(graph)]
    /\ runLog' = [st |-> "clean", fw0 |-> feedWants, bl0 |-> blocked]
    /\ UNCHANGED <<graph, hopCount, feedWants, blocked>>

\* the updater is called (by the debounce loop, whose state is elsewhere)
UpdStart ==
    /\ UpdStartBody
    /\ ReplFrame

UpdAddSkip(ref) == feedWants

UpdAddRebuild(ref) == (feedWants \cap Hops(graph, Self, hopCount)) \cup {ref}

UpdAddRef(ref) == feedWants \cup {ref}

\* line 50-52: one iteration of the AddRef loop (List() has map order)
UpdAdd ==
    /\ upd.pc = "add"
    /\ \E ref \in upd.todo :
          /\ feedWants' = UpdAddRef(ref)
          /\ upd' = [upd EXCEPT !.todo = @ \ {ref}]
    /\ UNCHANGED <<graph, hopCount, blocked, runLog>>
    /\ ReplFrame

\* line 55-59: builder.Build() fails, the run ends after the adds
UpdBuildErr ==
    /\ upd.pc = "add"
    /\ upd.todo = {}
    /\ upd' = UpdIdle
    /\ runLog' = NoRun
    /\ UNCHANGED <<graph, hopCount, feedWants, blocked>>
    /\ ReplFrame

UpdKeepBlocked(g) == blocked

UpdNewBlocked(g) == BlockedList(g, Self)

\* line 55-62: Build, the replacement of r.current.blocked and its listing
UpdBuild ==
    /\ upd.pc = "add"
    /\ upd.todo = {}
    /\ blocked' = UpdNewBlocked(graph)
    /\ upd' = [pc |-> "del", todo |-> blocked']
    /\ UNCHANGED <<graph, hopCount, feedWants, runLog>>
    /\ ReplFrame

\* line 63-67: one iteration of the Delete loop
UpdDel ==
    /\ upd.pc = "del"
    /\ \E bf \in upd.todo :
          /\ feedWants' = feedWants \ {bf}
          /\ upd' = [upd EXCEPT !.todo = @ \ {bf}]
    /\ UNCHANGED <<graph, hopCount, blocked, runLog>>
    /\ ReplFrame

\* line 68: the closure returns
UpdDone ==
    /\ upd.pc = "del"
    /\ upd.todo = {}
    /\ upd' = UpdIdle
    /\ runLog' = IF runLog.st = "clean" THEN [runLog EXCEPT !.st = "fresh"] ELSE NoRun
    /\ UNCHANGED <<graph, hopCount, feedWants, blocked>>
    /\ ReplFrame

(***************************************************************************)
(* The imperative overrides (line 104-108).  Each is one locked call on    *)
(* the set r.current points to.  Block and Unblock read the field          *)
(* r.current.blocked without synchronisation while the updater writes it:  *)
(* the call acts on the old or on the new set; on the old set its effect   *)
(* is the one of the same call made just before the replacement, which is  *)
(* an interleaving of these actions.                                       *)
(***************************************************************************)
BlockBody(ref) ==
    /\ blocked' = blocked \cup {ref}
    /\ runLog' = Disturbed
    /\ UNCHANGED <<graph, hopCount, feedWants, upd>>

Block(ref) == BlockBody(ref) /\ ReplFrame

UnblockBody(ref) ==
    /\ blocked' = blocked \ {ref}
    /\ runLog' = Disturbed
    /\ UNCHANGED <<graph, hopCount, feedWants, upd>>

Unblock(ref) == UnblockBody(ref) /\ ReplFrame

ReplicateBody(ref) ==
    /\ feedWants' = feedWants \cup {ref}
    /\ runLog' = Disturbed
    /\ UNCHANGED <<graph, hopCount, blocked, upd>>

Replicate(ref) == ReplicateBody(ref) /\ ReplFrame

DontReplicateBody(ref) ==
    /\ feedWants' = feedWants \ {ref}
    /\ runLog' = Disturbed
    /\ UNCHANGED <<graph, hopCount, blocked, upd>>

DontReplicate(ref) == DontReplicateBody(ref) /\ ReplFrame

\* the contacts index processes a contact message: the latest edge wins
GraphChange ==
    /\ \E p \in EdgePairs : \E k \in KindsOf(p) :
          /\ graph[p] # k
          /\ graph' = [graph EXCEPT ![p] = k]
    /\ runLog' = Disturbed
    /\ UNCHANGED <<hopCount, feedWants, blocked, upd>>
    /\ ReplFrame

(***************************************************************************)
(* The blob store's files (blobstore/store.go).  A file has its bytes, the *)
(* path that names it (tmp/<nanos> or sha256/<hh>/<rest>, or none once it  *)
(* is unlinked) and the Put calls that hold it open: a descriptor keeps    *)
(* writing to its file after the path was renamed or removed.              *)
(***************************************************************************)
\* the bytes blobs are made of; 0 is what a hole of a sparse file reads as
Bytes == {1, 2}

\* the blobs that are put
Blobs == {<<1>>, <<2, 1>>}

\* sha256 of a byte string: an injective code of the string (no collisions)
RECURSIVE Sha256(_)
Sha256(bytes) ==
    IF bytes = <<>> THEN 1
    ELSE Sha256(SubSeq(bytes, 1, Len(bytes) - 1)) * 3 + bytes[Len(bytes)]

\* the references of the model: BlobRef{Hash, Algo: "sha256"} of the blobs
BlobRefs == {Sha256(b) : b \in Blobs}

\* the goroutines that call Put, and the values time.Now().UnixNano() takes
Putters == {"p1", "p2"}
ClockValues == {1, 2}

\* the paths under the store's base path, and the path of no entry
TmpPath(nanos) == [dir |-> "tmp", name |-> nanos]
BlobPath(ref) == [dir |-> "sha256", name |-> ref]
NoPath == [dir |-> "", name |-> 0]

PutIdle ==
    [pc |-> "idle", op |-> "none", data |-> <<>>, tmp |-> NoPath, off |-> 0,
     ref |-> 0, left |-> {}, err |-> Nil, exp |-> 0, had |-> FALSE]

\* New(): the directories sha256/ and tmp/ exist and are empty
FsInit == {}

\* the empty map[string]int64
NoWants == [r \in {} |-> 0]

\* the goroutines that call Want and WantWithDist
Wanters == {"w1"}
WantIdle == [pc |-> "idle", ref |-> 0, dist |-> 0]

\* NewWantManager, line 248-252: wants is empty
WmgrInit == [wants |-> NoWants, call |-> [w \in Wanters |-> WantIdle]]

\* no createWants stream is attached
ProcNone ==
    [pc |-> "none", remoteWants |-> NoWants, todo |-> {}, msg |-> NoWants,
     open |-> FALSE, out |-> <<>>, snaps |-> {}]

\* the two sbots of the blob exchange, before they have any blob or want
PeerIds == {"alice", "bob"}
PeerNone ==
    [has |-> {}, wants |-> NoWants, remoteWants |-> NoWants, pc |-> "none",
     inbox |-> <<>>, fetching |-> {}, toWant |-> {}]

\* the authors of the messages in the root log, and their sublog addresses
Authors == {Ref("A"), Ref("B")}
StoredAddrOfAlgo(ref) == <<ref.algo, "">>
StoredAddr(ref) == <<ref.algo, ref.key>>
Addrs == {StoredAddr(a) : a \in Authors}

\* an empty root log and an empty userFeeds multilog; ssb-drop-feed not run
IxInit ==
    [root |-> <<>>, subs |-> [a \in Addrs |-> <<>>], cursor |-> 0, err |-> Nil,
     tool |-> [pc |-> "idle", feed |-> NoRef, before |-> [a \in Addrs |-> <<>>],
               root0 |-> <<>>]]

PeersIdle == peers = [p \in PeerIds |-> PeerNone]

\* the indexes served by initSbot that the model follows: "combined" reads the
\* receive log, "contacts" reads the ByType sublog of the contact messages
Indexes == {"combined", "contacts"}

\* makeSinkIndex, line 136-139: a state file that did not exist is created
\* empty; a written state file holds one sequence
StateEmpty == <<>>
StateOf(seq) == <<seq>>

\* an empty receive log; every index has an empty state file and no derived entry
RunInit ==
    [root |-> <<>>,
     idx |-> [i \in Indexes |-> [state |-> StateEmpty, derived |-> <<>>,
                                 pc |-> "idle", at |-> 0]],
     crashes |-> 0]

\* no about message has been indexed
AbInit == <<>>

\* the goroutines that call Close, the connections and the index goroutines
\* of the life cycle model
Closers == {"k1", "k2"}
ConnIds == {"c1", "c2"}
IdxNames == {"userFeeds", "contacts"}

\* initSbot has returned: nothing is closed, the listener accepts, the index
\* goroutines run, no connection is open
BotInit ==
    [closedMu |-> "free", closed |-> FALSE, closeErr |-> Nil, shutdown |-> FALSE,
     net |-> "open", stores |-> "open",
     idx |-> [i \in IdxNames |-> "running"],
     conn |-> [c \in ConnIds |-> [open |-> FALSE, pc |-> "none", handler |-> "nil"]],
     call |-> [k \in Closers |-> [pc |-> "idle", was |-> FALSE, steps |-> 0]],
     first |-> <<>>]

\* no override has been called
OvrInit == [blk |-> {}, dont |-> {}]

\* EncodeSLP has not been called
SlpIdle == [pc |-> "none", out |-> <<>>, a |-> <<>>, b |-> <<>>, ra |-> <<>>, rb |-> <<>>]

\* the two sbots of the replication scenario, named by their feeds
GPeers == Authors

\* no peer has published, asked for a feed or connected
GspIdle ==
    [rx |-> [p \in GPeers |-> <<>>],
     users |-> [p \in GPeers |-> [a \in Addrs |-> <<>>]],
     wants |-> [p \in GPeers |-> {}],
     conn |-> "none", drops |-> 0,
     st |-> [p \in GPeers |-> [pc |-> "idle", next |-> 0, live |-> FALSE, chan |-> <<>>]],
     mutual |-> FALSE, had |-> [p \in GPeers |-> 0]]

\* the sublogs of the Privates multilog: an envelope prefix and the stored
\* address of the local feed
PrivAddr(prefix, ref) == <<prefix, StoredAddr(ref)>>
PrivAddrs == {PrivAddr(prefix, Self) : prefix \in {"box1:", "box2:"}}

\* nothing was published and no private.read stream is open
PrvIdle ==
    [rx |-> <<>>, privs |-> [a \in PrivAddrs |-> <<>>],
     rd |-> [pc |-> "none", via |-> "none", at |-> 0, out |-> <<>>]]

\* no goroutine is in the want subsystem and both locks are free
Locks == {"proc.l", "wmgr.l"}
Goroutines == {"pour", "store", "fetch", "want"}
LockIdle ==
    [held |-> [l \in Locks |-> "none"],
     pc |-> [g \in Goroutines |-> "idle"],
     left |-> [g \in {"store", "fetch"} |-> {}],
     todo |-> 0]

\* no want has been received and no blob is stored
NumIdle == [remoteWants |-> <<>>, has |-> {}, got |-> 0]

\* the guest references of the peer invites: the index is keyed by the
\* reference string, so one key under two algorithms is two guests
Guests == {Ref("B"), GabbyRef("B")}

\* no message content
NoContent == [type |-> "none", invite |-> NoRef, receipt |-> 0]

NoCall == [op |-> "none", type |-> "none", guest |-> NoRef, remote |-> NoRef, ref |-> 0,
           err |-> Nil, content |-> NoContent, before |-> <<>>]

\* an empty log, nothing indexed, no call made
PinvIdle == [state |-> [g \in Guests |-> "unset"], msgs |-> <<>>, idx |-> 0, hist |-> <<>>,
             crashed |-> FALSE, last |-> NoCall]

LastIdle == lk = LockIdle /\ num = NumIdle /\ pinv = PinvIdle

MoreIdle ==
    /\ bot = BotInit /\ ovr = OvrInit /\ slp = SlpIdle /\ gsp = GspIdle /\ prv = PrvIdle
    /\ LastIdle

RestIdle == run = RunInit /\ ab = AbInit /\ MoreIdle

ExtIdle == PeersIdle /\ ix = IxInit /\ RestIdle

BlobIdle ==
    /\ fs = FsInit
    /\ put = [p \in Putters |-> PutIdle]
    /\ wmgr = WmgrInit
    /\ proc = ProcNone
    /\ ExtIdle

\* the feeds the overrides of the model are called with
OverrideRefs == {Ref("B"), Ref("E")}

\* margaret.SeqEmpty
SeqEmpty == -1

\* no debounce goroutine
DebIdle == [seq |-> SeqEmpty, root |-> SeqEmpty, armed |-> FALSE, elapsed |-> 0,
            chan |-> FALSE, pc |-> "done", pending |-> FALSE]
NodeIdle == [promisc |-> FALSE, users |-> {}, guests |-> {}]

ReplInit ==
    /\ graph = EmptyGraph
    /\ hopCount \in 0 .. MaxHopCount
    /\ feedWants = {}
    /\ blocked = {}
    /\ upd = UpdIdle
    /\ runLog = NoRun

InitRepl ==
    /\ ReplInit
    /\ deb = DebIdle
    /\ node = NodeIdle
    /\ obs = NoObs
    /\ BlobIdle

NextRepl ==
    \/ UpdStart
    \/ UpdAdd
    \/ UpdBuildErr
    \/ UpdBuild
    \/ UpdDel
    \/ UpdDone
    \/ GraphChange
    \/ \E ref \in OverrideRefs : Block(ref)
    \/ \E ref \in OverrideRefs : Unblock(ref)
    \/ \E ref \in OverrideRefs : Replicate(ref)
    \/ \E ref \in OverrideRefs : DontReplicate(ref)

SpecRepl == InitRepl /\ [][NextRepl]_vars

(***************************************************************************)
(* The replicator with a record of the overrides in force: ovr.blk holds   *)
(* the feeds Block was called for and Unblock was not called for since,    *)
(* ovr.dont the feeds DontReplicate was called for and Replicate was not   *)
(* called for since.  The updater and the graph are the ones of SpecRepl.  *)
(***************************************************************************)
OvrFrame ==
    /\ UNCHANGED <<deb, node, fs, put, wmgr, proc, peers, ix, run, ab, bot, slp, gsp, prv, lastVars>>
    /\ obs' = NoObs

OvrBlock(ref) ==
    BlockBody(ref) /\ ovr' = [ovr EXCEPT !.blk = @ \cup {ref}] /\ OvrFrame

OvrUnblock(ref) ==
    UnblockBody(ref) /\ ovr' = [ovr EXCEPT !.blk = @ \ {ref}] /\ OvrFrame

OvrReplicate(ref) ==
    ReplicateBody(ref) /\ ovr' = [ovr EXCEPT !.dont = @ \ {ref}] /\ OvrFrame

OvrDontReplicate(ref) ==
    DontReplicateBody(ref) /\ ovr' = [ovr EXCEPT !.dont = @ \cup {ref}] /\ OvrFrame

InitOvr ==
    /\ graph = EmptyGraph
    /\ hopCount = 1
    /\ feedWants = {}
    /\ blocked = {}
    /\ upd = UpdIdle
    /\ runLog = NoRun
    /\ deb = DebIdle
    /\ node = NodeIdle
    /\ obs = NoObs
    /\ BlobIdle

NextOvr ==
    \/ UpdStart
    \/ UpdAdd
    \/ UpdBuildErr
    \/ UpdBuild
    \/ UpdDel
    \/ UpdDone
    \/ GraphChange
    \/ \E ref \in OverrideRefs : OvrBlock(ref)
    \/ \E ref \in OverrideRefs : OvrUnblock(ref)
    \/ \E ref \in OverrideRefs : OvrReplicate(ref)
    \/ \E ref \in OverrideRefs : OvrDontReplicate(ref)

SpecOvr == InitOvr /\ [][NextOvr]_vars

(***************************************************************************)
(* debounce (sbot/replicate.go line 71-102), started by                    *)
(* newGraphReplicator with the 15 second interval, the root log's          *)
(* sequence observable and the updater as work.                            *)
(*   deb.seq      the local variable seq                                   *)
(*   deb.armed    the timer is running; deb.elapsed seconds have passed    *)
(*                since it was (re)started                                 *)
(*   deb.chan     a value waits in timer.C (capacity 1)                    *)
(*   deb.pc       "select": the loop waits in select; "work": it is inside *)
(*                the case <-timer.C with seq set; "done": it returned     *)
(*   deb.root     the root log's current sequence                          *)
(*   deb.pending  history: a sequence was observed and no updater run has  *)
(*                started since                                            *)
(* seq is written by the handler (in the goroutine that appends to the     *)
(* root log) and read and written by the loop without synchronisation;     *)
(* both are single word accesses, so each reads or writes a whole value.   *)
(***************************************************************************)
\* line 33: 15*time.Second
Interval == 15

\* the root log sequences the model appends up to
MaxRootSeq == 2

\* the seconds one step of the model's clock takes
Quantum == 5

\* the graphs the debounce model starts with: the chain, and the chain with
\* C blocked by the local identity
BlockGraph == [ChainGraph EXCEPT ![<<Self, Ref("C")>>] = "block"]

\* line 75-86: the handler observes a new sequence: seq = newSeq and
\* timer.Reset(interval).  Reset leaves a value that waits in timer.C there.
DebResetKeepsElapsed(d) == [d EXCEPT !.armed = TRUE]

DebTimerReset(d) == [d EXCEPT !.armed = TRUE, !.elapsed = 0]

Tick ==
    /\ deb.pc # "done"
    /\ deb.root < MaxRootSeq
    /\ deb' = [DebTimerReset(deb) EXCEPT !.root = deb.root + 1,
                                         !.seq = deb.root + 1,
                                         !.pending = TRUE]
    /\ UNCHANGED <<graph, hopCount, feedWants, blocked, upd, runLog, node, fs, put, wmgr, proc, extVars>>
    /\ obs' = NoObs

\* time passes on the running timer
TimePass ==
    /\ deb.armed
    /\ deb.elapsed < Interval
    /\ deb' = [deb EXCEPT !.elapsed = IF @ + Quantum > Interval THEN Interval
                                      ELSE @ + Quantum]
    /\ UNCHANGED <<graph, hopCount, feedWants, blocked, upd, runLog, node, fs, put, wmgr, proc, extVars>>
    /\ obs' = NoObs

\* the timer expires: it stops and its value goes to timer.C
TimerExpire ==
    /\ deb.armed
    /\ deb.elapsed = Interval
    /\ deb' = [deb EXCEPT !.armed = FALSE, !.chan = TRUE]
    /\ UNCHANGED <<graph, hopCount, feedWants, blocked, upd, runLog, node, fs, put, wmgr, proc, extVars>>
    /\ obs' = NoObs

\* line 95-97: case <-timer.C with seq set: work() is called
DebFireWork ==
    /\ deb.pc = "select"
    /\ deb.chan
    /\ deb.seq # SeqEmpty
    /\ deb' = [deb EXCEPT !.chan = FALSE, !.pc = "work", !.pending = FALSE]
    /\ UpdStartBody
    /\ UNCHANGED <<node, fs, put, wmgr, proc, extVars>>
    /\ obs' = NoObs

\* line 95-96: case <-timer.C with seq = SeqEmpty: nothing to do
DebFireIdle ==
    /\ deb.pc = "select"
    /\ deb.chan
    /\ deb.seq = SeqEmpty
    /\ deb' = [deb EXCEPT !.chan = FALSE]
    /\ UNCHANGED <<graph, hopCount, feedWants, blocked, upd, runLog, node, fs, put, wmgr, proc, extVars>>
    /\ obs' = NoObs

\* line 98: work() has returned: seq = margaret.SeqEmpty
DebSeqReset ==
    /\ deb.pc = "work"
    /\ upd.pc = "idle"
    /\ deb' = [deb EXCEPT !.seq = SeqEmpty, !.pc = "select"]
    /\ UNCHANGED <<graph, hopCount, feedWants, blocked, upd, runLog, node, fs, put, wmgr, proc, extVars>>
    /\ obs' = NoObs

\* line 91-93: the context is cancelled: the handler is unregistered and
\* the loop returns
DebCancel ==
    /\ deb.pc = "select"
    /\ deb' = [deb EXCEPT !.pc = "done"]
    /\ UNCHANGED <<graph, hopCount, feedWants, blocked, upd, runLog, node, fs, put, wmgr, proc, extVars>>
    /\ obs' = NoObs

\* line 72-73, 87: seq = SeqEmpty, the timer runs, and Register hands the
\* handler the current sequence of the root log (empty, or one message)
InitDeb ==
    /\ graph \in {ChainGraph, BlockGraph}
    /\ hopCount \in 0 .. MaxHopCount
    /\ feedWants = {}
    /\ blocked = {}
    /\ upd = UpdIdle
    /\ runLog = NoRun
    /\ \E r \in {SeqEmpty, 0} :
          deb = [seq |-> r, root |-> r, armed |-> TRUE, elapsed |-> 0,
                 chan |-> FALSE, pc |-> "select", pending |-> r # SeqEmpty]
    /\ node = NodeIdle
    /\ obs = NoObs
    /\ BlobIdle

\* the steps of the debounce goroutine, the updater it calls included
DebLoop ==
    \/ DebFireWork
    \/ DebFireIdle
    \/ UpdAdd
    \/ UpdBuild
    \/ UpdBuildErr
    \/ UpdDel
    \/ UpdDone
    \/ DebSeqReset

NextDeb ==
    \/ Tick
    \/ TimePass
    \/ TimerExpire
    \/ DebLoop
    \/ DebCancel

\* the goroutine is scheduled and time passes; appends to the root log and
\* the cancellation are up to the environment
SpecDeb ==
    /\ InitDeb
    /\ [][NextDeb]_vars
    /\ WF_vars(DebLoop)
    /\ WF_vars(TimePass)
    /\ WF_vars(TimerExpire)

(***************************************************************************)
(* mkHandler (sbot/new.go line 332-391): the decider that gives a new      *)
(* connection its muxrpc handler.                                          *)
(***************************************************************************)
\* the keys that open connections, and a connection without an shs address
NoAddr == "noaddr"
RemoteKeys == {"A", "B", "E"}

\* the authors whose messages get stored, and the holders of an invite
AuthorKeys == {"A", "B"}
GuestKeys == {"E"}

ErrNoAddr == "no shs-bs address found"
ErrNoInvite == "not for us"

\* the feeds the overrides are called with in the connection model
NetOverrideRefs == {Ref("B"), GabbyRef("B")}

Result(h, e) == [handler |-> h, err |-> e]

\* legacyinvites.Service.Authorize: nil for a remote that holds an open invite
InviteAuthorize(remote) ==
    IF remote.algo = AlgoClassic /\ remote.key \in node.guests THEN Nil ELSE ErrNoInvite

TofuNever(listOk) == FALSE

\* line 386: s.Users.List() succeeded and is empty
NoStoredFeeds(listOk) == listOk /\ node.users = {}

\* line 362-390: the graph authorisation with its gabby retry and the
\* trust-on-first-use fallback
GraphAuth(remote, listOk) ==
    IF Authorize(feedWants, blocked, remote) = Nil
    THEN Result("public", Nil)
    ELSE IF Authorize(feedWants, blocked, GabbyRef(remote.key)) = Nil
    THEN Result("public", Nil)
    ELSE IF NoStoredFeeds(listOk)
    THEN Result("public", Nil)
    ELSE Result("nil", Authorize(feedWants, blocked, GabbyRef(remote.key)))

MkHandlerPromiscMaster(addr, listOk) ==
    IF addr = NoAddr THEN Result("nil", ErrNoAddr)
    ELSE IF Ref(addr) = Self \/ node.promisc THEN Result("master", Nil)
    ELSE IF InviteAuthorize(Ref(addr)) = Nil THEN Result("guest", Nil)
    ELSE GraphAuth(Ref(addr), listOk)

\* line 337-360: address, own identity, invite guests, promiscuous mode
MkHandler(addr, listOk) ==
    IF addr = NoAddr THEN Result("nil", ErrNoAddr)
    ELSE IF Ref(addr) = Self THEN Result("master", Nil)
    ELSE IF InviteAuthorize(Ref(addr)) = Nil THEN Result("guest", Nil)
    ELSE IF node.promisc THEN Result("public", Nil)
    ELSE GraphAuth(Ref(addr), listOk)

NetFrame == UNCHANGED <<graph, hopCount, feedWants, blocked, upd, runLog, deb, fs, put, wmgr, proc, extVars>>

\* a connection comes in and mkHandler decides
Connect ==
    /\ \E addr \in RemoteKeys \cup {NoAddr} : \E listOk \in BOOLEAN :
          LET r == MkHandler(addr, listOk) IN
          obs' = [NoObs EXCEPT !.op = "mkHandler",
                               !.remote = IF addr = NoAddr THEN NoRef ELSE Ref(addr),
                               !.listOk = listOk, !.handler = r.handler, !.err = r.err]
    /\ UNCHANGED node
    /\ NetFrame

\* a caller asks the lister directly
AuthorizeCall ==
    /\ \E remote \in NetOverrideRefs \cup {Ref("E")} :
          obs' = [NoObs EXCEPT !.op = "Authorize", !.remote = remote,
                               !.err = Authorize(feedWants, blocked, remote)]
    /\ UNCHANGED node
    /\ NetFrame

\* a message of an author is stored: the author's sublog exists from now on
StoreMessage ==
    /\ \E k \in AuthorKeys :
          /\ k \notin node.users
          /\ node' = [node EXCEPT !.users = @ \cup {k}]
    /\ obs' = NoObs
    /\ NetFrame

\* an invite is created for a guest key / used up
InviteCreate ==
    /\ \E k \in GuestKeys :
          /\ k \notin node.guests
          /\ node' = [node EXCEPT !.guests = @ \cup {k}]
    /\ obs' = NoObs
    /\ NetFrame

InviteUse ==
    /\ \E k \in node.guests : node' = [node EXCEPT !.guests = @ \ {k}]
    /\ obs' = NoObs
    /\ NetFrame

InitNet ==
    /\ graph = EmptyGraph
    /\ hopCount = 0
    /\ feedWants = {}
    /\ blocked = {}
    /\ upd = UpdIdle
    /\ runLog = NoRun
    /\ deb = DebIdle
    /\ node \in {[NodeIdle EXCEPT !.promisc = b] : b \in BOOLEAN}
    /\ obs = NoObs
    /\ BlobIdle

NextNet ==
    \/ Connect
    \/ AuthorizeCall
    \/ StoreMessage
    \/ InviteCreate
    \/ InviteUse
    \/ \E ref \in NetOverrideRefs : Block(ref)
    \/ \E ref \in NetOverrideRefs : Unblock(ref)
    \/ \E ref \in NetOverrideRefs : Replicate(ref)
    \/ \E ref \in NetOverrideRefs : DontReplicate(ref)

SpecNet == InitNet /\ [][NextNet]_vars

(***************************************************************************)
(* blobStore.Put and blobStore.Delete on the files, step by step: other    *)
(* goroutines (and other processes that share the directory) run between   *)
(* the system calls of a Put.                                              *)
(***************************************************************************)
StoreFrame ==
    UNCHANGED <<graph, hopCount, feedWants, blocked, upd, runLog, deb, node, extVars>>

FsFrame ==
    /\ StoreFrame
    /\ UNCHANGED <<wmgr, proc>>
    /\ obs' = NoObs

Exists(path) == \E f \in fs : f.path = path
FileAt(path) == CHOOSE f \in fs : f.path = path

\* the kernel frees a file that no path names and no descriptor holds open
Reclaim(files) == {f \in files : f.path # NoPath \/ f.fds # {}}

\* close(2) of the descriptor of p
CloseFd(files, p) == {[f EXCEPT !.fds = @ \ {p}] : f \in files}

Zeros(n) == [k \in 1 .. n |-> 0]

\* write(2) of one byte at an offset: a file shorter than the offset gets a
\* hole, a byte that is there is overwritten
WriteAt(bytes, off, b) ==
    LET padded == IF Len(bytes) < off THEN bytes \o Zeros(off - Len(bytes)) ELSE bytes IN
    IF off = Len(padded) THEN Append(padded, b)
    ELSE [padded EXCEPT ![off + 1] = b]

\* line 79-81: tmp/<time.Now().UnixNano()>, the same for two calls that read
\* the same clock value
GetTmpPath(now) == TmpPath(now)

\* os.Create (O_CREATE|O_TRUNC) by p: an existing file of that path is
\* truncated and shared, else a new empty file is made
OsCreate(files, path, p) ==
    IF \E f \in files : f.path = path
    THEN {IF f.path = path THEN [f EXCEPT !.bytes = <<>>, !.fds = @ \cup {p}] ELSE f :
             f \in files}
    ELSE files \cup {[bytes |-> <<>>, path |-> path, fds |-> {p}]}

\* os.Rename: the file at oldpath gets newpath, the file that had newpath
\* loses its name
OsRename(files, oldpath, newpath) ==
    {IF f.path = oldpath THEN [f EXCEPT !.path = newpath]
     ELSE IF f.path = newpath THEN [f EXCEPT !.path = NoPath]
     ELSE f : f \in files}

\* os.Remove
OsRemove(files, path) ==
    {IF f.path = path THEN [f EXCEPT !.path = NoPath] ELSE f : f \in files}

\* line 101-105: getTmpPath and os.Create
PutCreate(p) ==
    /\ put[p].pc = "idle"
    /\ \E data \in Blobs : \E now \in ClockValues :
          /\ fs' = OsCreate(fs, GetTmpPath(now), p)
          /\ put' = [put EXCEPT ![p] = [PutIdle EXCEPT !.pc = "copy", !.op = "put",
                                                       !.data = data,
                                                       !.tmp = GetTmpPath(now)]]
    /\ FsFrame

\* line 108: io.Copy writes the next byte to the file (and to the hash)
PutWrite(p) ==
    /\ put[p].pc = "copy"
    /\ put[p].off < Len(put[p].data)
    /\ fs' = {IF p \in f.fds
              THEN [f EXCEPT !.bytes = WriteAt(@, put[p].off, put[p].data[put[p].off + 1])]
              ELSE f : f \in fs}
    /\ put' = [put EXCEPT ![p].off = @ + 1]
    /\ FsFrame

\* line 109-111: the reader fails: Put returns the error, the tmp file stays
PutCopyErr(p) ==
    /\ put[p].pc = "copy"
    /\ put[p].off < Len(put[p].data)
    /\ put' = [put EXCEPT ![p] = PutIdle]
    /\ fs' = Reclaim(CloseFd(fs, p))
    /\ FsFrame

\* line 113-116: the reference is the hash of the bytes that were read
PutRef(p) == Sha256(put[p].data)

\* line 118-150: Close, MkdirAll and os.Rename(tmpPath, finalPath); Rename
\* fails when the tmp entry is gone (another Put renamed it)
PutRename(p) ==
    /\ put[p].pc = "copy"
    /\ put[p].off = Len(put[p].data)
    /\ IF ~Exists(put[p].tmp)
       THEN /\ put' = [put EXCEPT ![p] = PutIdle]
            /\ fs' = Reclaim(CloseFd(fs, p))
       ELSE /\ put' = [put EXCEPT ![p].pc = "notify"]
            /\ fs' = Reclaim(OsRename(CloseFd(fs, p), put[p].tmp, BlobPath(PutRef(p))))
    /\ FsFrame

\* line 152-160: the notification is poured and Put returns (the reference,
\* or the error of a handler)
PutNotify(p) ==
    /\ put[p].pc = "notify"
    /\ put' = [put EXCEPT ![p] = PutIdle]
    /\ UNCHANGED fs
    /\ FsFrame

\* line 163-186: os.Remove of a blob that is there (and its notification)
Delete(ref) ==
    /\ Exists(BlobPath(ref))
    /\ fs' = Reclaim(OsRemove(fs, BlobPath(ref)))
    /\ UNCHANGED put
    /\ FsFrame

InitFS ==
    /\ graph = EmptyGraph
    /\ hopCount = 0
    /\ feedWants = {}
    /\ blocked = {}
    /\ upd = UpdIdle
    /\ runLog = NoRun
    /\ deb = DebIdle
    /\ node = NodeIdle
    /\ obs = NoObs
    /\ BlobIdle

NextFS ==
    \/ \E p \in Putters : PutCreate(p)
    \/ \E p \in Putters : PutWrite(p)
    \/ \E p \in Putters : PutCopyErr(p)
    \/ \E p \in Putters : PutRename(p)
    \/ \E p \in Putters : PutNotify(p)
    \/ \E ref \in BlobRefs : Delete(ref)

SpecFS == InitFS /\ [][NextFS]_vars

(***************************************************************************)
(* The want manager and the wantProc of one createWants stream on top of   *)
(* the blob store.  Put and Delete use a tmp path of their own here, so    *)
(* the file part of a call is one step; the change handlers that the       *)
(* store's broadcast calls, the two halves of WantWithDist and the steps   *)
(* of wantProc.init interleave.                                            *)
(***************************************************************************)
\* the most messages the peer takes before it closes the stream
MaxOut == 2

\* the distance Want calls WantWithDist with
Dists == {-1}

\* the goroutine that is in the store: one call at a time here, made by a
\* local caller or by the fetch goroutine of the wantProc
StoreCaller == "p1"

WantFrame == StoreFrame

\* bs.Get / bs.Size on a reference: the blob is there
HasBlob(ref) == Exists(BlobPath(ref))

\* line 194-211: the size of a blob that is there
Size(ref) == Len(FileAt(BlobPath(ref)).bytes)

MapSet(m, k, v) == [x \in DOMAIN m \cup {k} |-> IF x = k THEN v ELSE m[x]]
MapDel(m, k) == [x \in DOMAIN m \ {k} |-> m[x]]

\* the want maps that have been current since wantProc.init began
Seen(w) == IF proc.pc = "init" THEN proc.snaps \cup {w} ELSE proc.snaps

\* proc.out.Pour: the message is written, or the stream is closed and the
\* call fails
SinkOk(pr) == pr.open /\ Len(pr.out) < MaxOut
SinkPour(pr, m) ==
    IF SinkOk(pr) THEN [pr EXCEPT !.out = Append(@, m)] ELSE [pr EXCEPT !.open = FALSE]

\* the sinks registered with the store's broadcast when a change is poured
Handlers == {"wmgr"} \cup (IF proc.pc = "none" THEN {} ELSE {"proc"})

\* blobStore.Put line 101-152 with a tmp path no other call has: the blob
\* becomes visible and the notification is about to be poured
PutStored(p) ==
    /\ put[p].pc \in {"idle", "fetch"}
    /\ \E data \in Blobs :
          /\ fs' = Reclaim(OsRemove(fs, BlobPath(Sha256(data))))
                      \cup {[bytes |-> data, path |-> BlobPath(Sha256(data)), fds |-> {}]}
          /\ put' = [put EXCEPT ![p] = [PutIdle EXCEPT !.pc = "notify", !.op = "put",
                                                       !.ref = Sha256(data),
                                                       !.left = Handlers,
                                                       !.exp = put[p].exp,
                                                       !.had = HasBlob(Sha256(data))]]
    /\ UNCHANGED <<wmgr, proc>>
    /\ obs' = NoObs
    /\ WantFrame

\* blobStore.Delete line 164-177 of a blob that is there
DeleteRemoved(p) ==
    /\ put[p].pc = "idle"
    /\ \E ref \in BlobRefs :
          /\ HasBlob(ref)
          /\ fs' = Reclaim(OsRemove(fs, BlobPath(ref)))
          /\ put' = [put EXCEPT ![p] = [PutIdle EXCEPT !.pc = "notify", !.op = "rm",
                                                       !.ref = ref, !.left = Handlers]]
    /\ UNCHANGED <<wmgr, proc>>
    /\ obs' = NoObs
    /\ WantFrame

\* line 256-268: under wmgr.l, a Put notification deletes the want
WmgrChange(wants, op, ref) ==
    IF op = "put" /\ ref \in DOMAIN wants THEN MapDel(wants, ref) ELSE wants

ChangesWmgr(p) ==
    /\ put[p].pc = "notify"
    /\ "wmgr" \in put[p].left
    /\ LET w == WmgrChange(wmgr.wants, put[p].op, put[p].ref) IN
          /\ wmgr' = [wmgr EXCEPT !.wants = w]
          /\ proc' = [proc EXCEPT !.snaps = Seen(w)]
    /\ put' = [put EXCEPT ![p].left = @ \ {"wmgr"}]
    /\ UNCHANGED fs
    /\ obs' = NoObs
    /\ WantFrame

ProcWantsAny(remoteWants, ref) == TRUE

\* line 355: the peer has asked for the blob
ProcWantsRef(remoteWants, ref) == ref \in DOMAIN remoteWants

\* line 349-370: under proc.l, a change of a blob the peer wants is answered
\* with its size; a failure is the handler's error
ChangesProc(p) ==
    /\ put[p].pc = "notify"
    /\ "proc" \in put[p].left
    /\ IF ProcWantsRef(proc.remoteWants, put[p].ref)
       THEN IF HasBlob(put[p].ref)
            THEN /\ proc' = SinkPour(proc, MapSet(NoWants, put[p].ref, Size(put[p].ref)))
                 /\ put' = [put EXCEPT ![p].left = @ \ {"proc"},
                                       ![p].err = IF SinkOk(proc) THEN @
                                                  ELSE "errors pouring into sink"]
            ELSE /\ put' = [put EXCEPT ![p].left = @ \ {"proc"},
                                       ![p].err = "error getting blob size"]
                 /\ UNCHANGED proc
       ELSE /\ put' = [put EXCEPT ![p].left = @ \ {"proc"}]
            /\ UNCHANGED proc
    /\ UNCHANGED <<fs, wmgr>>
    /\ obs' = [NoObs EXCEPT !.op = IF put[p].op = "put" THEN "ChangesPut" ELSE "ChangesRm",
                            !.ref = put[p].ref, !.len = Len(proc.out),
                            !.sinkOk = SinkOk(proc)]
    /\ WantFrame

\* line 156-160 and 181-185: every handler has run, the call returns
StoreReturn(p) ==
    /\ put[p].pc = "notify"
    /\ put[p].left = {}
    /\ obs' = [NoObs EXCEPT !.op = IF put[p].op = "put" THEN "Put" ELSE "Delete",
                            !.ref = put[p].ref, !.err = put[p].err,
                            !.exp = put[p].exp, !.had = put[p].had]
    /\ put' = [put EXCEPT ![p] = PutIdle]
    /\ UNCHANGED <<fs, wmgr, proc>>
    /\ WantFrame

\* line 299-302: WantWithDist(ref, dist), for a dist of the given set, looks
\* for the blob before it takes the lock
WantGetWith(w, dists) ==
    /\ wmgr.call[w].pc = "idle"
    /\ \E ref \in BlobRefs : \E dist \in dists :
          IF HasBlob(ref)
          THEN UNCHANGED wmgr
          ELSE wmgr' = [wmgr EXCEPT !.call[w] = [pc |-> "lock", ref |-> ref,
                                                 dist |-> dist]]
    /\ obs' = NoObs
    /\ UNCHANGED <<fs, put, proc>>
    /\ WantFrame

\* line 294-296: Want(ref) is WantWithDist(ref, -1)
WantGet(w) == WantGetWith(w, Dists)

\* the distances a caller of the exported WantWithDist passes: a want of the
\* caller, a want passed on for a peer, and values that are not negative
AnyDists == {-2, -1, 0, 1}

\* line 298: WantWithDist(ref, dist) called directly
WantWithDistGet(w) == WantGetWith(w, AnyDists)

\* line 304-311: under wmgr.l the want is entered and poured to the broadcast
WantSet(w) ==
    /\ wmgr.call[w].pc = "lock"
    /\ LET ws == MapSet(wmgr.wants, wmgr.call[w].ref, wmgr.call[w].dist) IN
          /\ wmgr' = [wmgr EXCEPT !.wants = ws, !.call[w] = WantIdle]
          /\ proc' = [proc EXCEPT !.snaps = Seen(ws)]
    /\ obs' = NoObs
    /\ UNCHANGED <<fs, put>>
    /\ WantFrame

\* line 314-321 and 348-378: the wantProc is made and its change handler is
\* registered
CreateWants ==
    /\ proc.pc = "none"
    /\ proc' = [ProcNone EXCEPT !.pc = "init", !.todo = BlobRefs, !.open = TRUE,
                                !.snaps = {wmgr.wants}]
    /\ UNCHANGED <<fs, put, wmgr>>
    /\ obs' = NoObs
    /\ WantFrame

\* what the encoder of the initial message reads of one entry of the map
InitReadEntry(msg, wants, ref) ==
    IF ref \in DOMAIN wants THEN MapSet(msg, ref, wants[ref]) ELSE msg

\* line 380: proc.wmgr.wants is handed to the sink and read entry by entry
\* while wmgr.l is not held
InitRead(ref) ==
    /\ proc.pc = "init"
    /\ ref \in proc.todo
    /\ proc' = [proc EXCEPT !.todo = @ \ {ref},
                            !.msg = InitReadEntry(@, wmgr.wants, ref)]
    /\ UNCHANGED <<fs, put, wmgr>>
    /\ obs' = NoObs
    /\ WantFrame

\* line 380-386: the initial message is written (an error is only logged)
\* and CreateWants returns the wantProc
InitPour ==
    /\ proc.pc = "init"
    /\ proc.todo = {}
    /\ proc' = [SinkPour(proc, proc.msg) EXCEPT !.pc = "attached", !.msg = NoWants,
                                                !.snaps = {}]
    /\ UNCHANGED <<fs, put, wmgr>>
    /\ obs' = [NoObs EXCEPT !.op = "CreateWants", !.maps = proc.snaps]
    /\ WantFrame

\* the sizes a peer announces
PeerSizes == {Len(b) : b \in Blobs}

RemoteDistSame(dist) == dist

\* line 407: the distance kept for a blob the peer wants and we do not have
RemoteDist(dist) == dist - 1

\* line 393-448: wantProc.Pour of a message with one want of the peer; the
\* fetch of line 418-436 is a goroutine of its own (here: at most one)
ProcPour ==
    /\ proc.pc = "attached"
    /\ \E ref \in BlobRefs : \E dist \in {-1} \cup PeerSizes :
          /\ IF dist < 0
             THEN IF HasBlob(ref)
                  THEN /\ proc' = SinkPour([proc EXCEPT !.remoteWants = MapDel(@, ref)],
                                           MapSet(NoWants, ref, Size(ref)))
                       /\ UNCHANGED put
                  ELSE /\ proc' = [proc EXCEPT !.remoteWants =
                                                  MapSet(@, ref, RemoteDist(dist))]
                       /\ UNCHANGED put
             ELSE /\ put[StoreCaller].pc = "idle"
                  /\ IF ref \in DOMAIN wmgr.wants
                     THEN put' = [put EXCEPT ![StoreCaller].pc = "fetch",
                                             ![StoreCaller].exp = ref]
                     ELSE UNCHANGED put
                  /\ UNCHANGED proc
          /\ obs' = [NoObs EXCEPT !.op = "Pour", !.ref = ref, !.dist = dist,
                                  !.len = Len(proc.out), !.sinkOk = SinkOk(proc)]
    /\ UNCHANGED <<fs, wmgr>>
    /\ WantFrame

\* the peer closes the stream
PeerHangup ==
    /\ proc.pc # "none"
    /\ proc.open
    /\ proc' = [proc EXCEPT !.open = FALSE]
    /\ UNCHANGED <<fs, put, wmgr>>
    /\ obs' = NoObs
    /\ WantFrame

InitWant == InitFS

NextWant ==
    \/ PutStored(StoreCaller)
    \/ DeleteRemoved(StoreCaller)
    \/ ChangesWmgr(StoreCaller)
    \/ ChangesProc(StoreCaller)
    \/ StoreReturn(StoreCaller)
    \/ \E w \in Wanters : WantGet(w)
    \/ \E w \in Wanters : WantSet(w)
    \/ CreateWants
    \/ \E ref \in BlobRefs : InitRead(ref)
    \/ InitPour
    \/ ProcPour
    \/ PeerHangup

SpecWant == InitWant /\ [][NextWant]_vars

\* the want map under Want, WantWithDist, Put and Delete, with no stream
\* attached
NextWantDist ==
    \/ \E w \in Wanters : WantGet(w)
    \/ \E w \in Wanters : WantWithDistGet(w)
    \/ \E w \in Wanters : WantSet(w)
    \/ PutStored(StoreCaller)
    \/ DeleteRemoved(StoreCaller)
    \/ ChangesWmgr(StoreCaller)
    \/ StoreReturn(StoreCaller)

SpecWantDist == InitWant /\ [][NextWantDist]_vars

(***************************************************************************)
(* Two sbots joined by a createWants stream in each direction and by       *)
(* blobs.get.  Each has its blob store (the references it holds), its want *)
(* manager and the wantProc of the stream; the calls are taken whole and a *)
(* stream delivers every message, in order.                                *)
(***************************************************************************)
BlobX == Sha256(<<1>>)
BlobY == Sha256(<<2, 1>>)

Other(p) == CHOOSE q \in PeerIds : q # p

\* blobStore.Size of a blob that is held
SizeOf(ref) == Len(CHOOSE b \in Blobs : Sha256(b) = ref)

XchgFrame ==
    /\ UNCHANGED <<graph, hopCount, feedWants, blocked, upd, runLog, deb, node>>
    /\ UNCHANGED <<fs, put, wmgr, proc, ix, run, ab, moreVars>>
    /\ obs' = NoObs

\* what a message is sent to: the inbox of the other side's wantProc
Send(ps, p, m) == [ps EXCEPT ![Other(p)].inbox = Append(@, m)]

\* line 294-312: Want(ref): nothing for a blob that is held, else the want
\* is entered (and poured to the want manager's broadcast, which has no
\* registered sink)
XchgWant(p) ==
    /\ \E ref \in peers[p].toWant :
          peers' = [peers EXCEPT
                       ![p].toWant = @ \ {ref},
                       ![p].wants = IF ref \in peers[p].has THEN @
                                    ELSE MapSet(@, ref, -1)]
    /\ XchgFrame

\* line 314-326, 347-386: CreateWants: the handler is registered and the
\* want map is sent
XchgAttach(p) ==
    /\ peers[p].pc = "none"
    /\ peers' = Send([peers EXCEPT ![p].pc = "attached"], p, peers[p].wants)
    /\ XchgFrame

\* line 402-416: the entries with a negative distance of a message
XchgAnswer(pr, m) ==
    [ref \in {r \in DOMAIN m : m[r] < 0 /\ r \in pr.has} |-> SizeOf(ref)]

XchgRemoteWants(pr, m) ==
    [ref \in ((DOMAIN pr.remoteWants \cup {r \in DOMAIN m : m[r] < 0}) \ pr.has) |->
        IF ref \in DOMAIN m /\ m[ref] < 0 THEN m[ref] - 1 ELSE pr.remoteWants[ref]]

\* line 417-437: the entries with a size start a fetch when the blob is wanted
XchgFetches(pr, m) == {r \in DOMAIN m : m[r] >= 0 /\ r \in DOMAIN pr.wants}

\* line 393-448: wantProc.Pour of the next message of the peer
XchgPour(p) ==
    /\ peers[p].pc = "attached"
    /\ peers[p].inbox # <<>>
    /\ LET m == Head(peers[p].inbox)
           pr == peers[p]
           after == [peers EXCEPT ![p].inbox = Tail(@),
                                  ![p].remoteWants = XchgRemoteWants(pr, m),
                                  ![p].fetching = @ \cup XchgFetches(pr, m)] IN
          peers' = IF XchgAnswer(pr, m) = NoWants THEN after
                   ELSE Send(after, p, XchgAnswer(pr, m))
    /\ XchgFrame

\* line 418-436 with Put (100-161) and the change handlers (256-268,
\* 349-370): the fetch goroutine reads blobs.get from the peer and puts the
\* blob; a peer that does not hold the blob ends the fetch
XchgFetch(p) ==
    /\ \E ref \in peers[p].fetching :
          IF ref \in peers[Other(p)].has
          THEN LET after == [peers EXCEPT ![p].fetching = @ \ {ref},
                                          ![p].has = @ \cup {ref},
                                          ![p].wants = MapDel(@, ref)] IN
               peers' = IF ref \in DOMAIN peers[p].remoteWants
                        THEN Send(after, p, MapSet(NoWants, ref, SizeOf(ref)))
                        ELSE after
          ELSE peers' = [peers EXCEPT ![p].fetching = @ \ {ref}]
    /\ XchgFrame

\* alice holds X, bob holds Y, and both are about to call Want for X and Y
XchgStart ==
    [p \in PeerIds |->
        [PeerNone EXCEPT !.has = IF p = "alice" THEN {BlobX} ELSE {BlobY},
                         !.toWant = {BlobX, BlobY}]]

InitXchg ==
    /\ graph = EmptyGraph
    /\ hopCount = 0
    /\ feedWants = {}
    /\ blocked = {}
    /\ upd = UpdIdle
    /\ runLog = NoRun
    /\ deb = DebIdle
    /\ node = NodeIdle
    /\ obs = NoObs
    /\ fs = FsInit
    /\ put = [p \in Putters |-> PutIdle]
    /\ wmgr = WmgrInit
    /\ proc = ProcNone
    /\ peers = XchgStart
    /\ ix = IxInit
    /\ RestIdle

NextXchg ==
    \/ \E p \in PeerIds : XchgWant(p)
    \/ \E p \in PeerIds : XchgAttach(p)
    \/ \E p \in PeerIds : XchgPour(p)
    \/ \E p \in PeerIds : XchgFetch(p)

\* fair scheduling: every call that can be made is made
SpecXchg ==
    /\ InitXchg
    /\ [][NextXchg]_vars
    /\ \A p \in PeerIds :
          /\ WF_vars(XchgWant(p)) /\ WF_vars(XchgAttach(p))
          /\ WF_vars(XchgPour(p)) /\ WF_vars(XchgFetch(p))

(***************************************************************************)
(* The userFeeds multilog (multilogs/userfeeds.go): its sink reads the     *)
(* root log in receive order from its cursor and calls UserFeedsUpdate for *)
(* every entry; ssb-drop-feed (cmd/ssb-drop-feed) nulls a feed and         *)
(* rebuilds the indexes.  Receive sequences count from 0: the entry at     *)
(* position i of the root log has sequence i - 1.                          *)
(***************************************************************************)
\* the most entries the root log gets
MaxRootLen == 3

\* what reading an entry of the root log gives: a message with its author
\* (or without one), the Nulled error, another error, a value of another type
NoAuthor == NoRef
MsgOf(author) == [kind |-> "msg", author |-> author]
Nulled == [kind |-> "nulled", author |-> NoRef]
ReadError == [kind |-> "error", author |-> NoRef]
OtherType == [kind |-> "other", author |-> NoRef]
RootValues == {MsgOf(a) : a \in Authors \cup {NoAuthor}} \cup {ReadError, OtherType}

ErrRead == "read error"
ErrCast == "error casting message"
ErrNilAuthor == "nil author on message?!"

IsErrNulledNever(value) == FALSE

\* margaret.IsErrNulled
IsErrNulled(value) == value.kind = "nulled"

UfResult(err, subs) == [err |-> err, subs |-> subs]

UserFeedsUpdateTwice(seq, value, subs) ==
    IF value.kind # "msg" \/ value.author = NoAuthor THEN UfResult(ErrCast, subs)
    ELSE UfResult(Nil, [subs EXCEPT ![StoredAddr(value.author)] = Append(Append(@, seq), seq)])

\* line 23-48: UserFeedsUpdate(ctx, seq, value, mlog): the error it returns
\* and the sublogs it leaves
UserFeedsUpdate(seq, value, subs) ==
    IF value.kind \in {"nulled", "error"}
    THEN IF IsErrNulled(value) THEN UfResult(Nil, subs) ELSE UfResult(ErrRead, subs)
    ELSE IF value.kind # "msg" THEN UfResult(ErrCast, subs)
    ELSE IF value.author = NoAuthor THEN UfResult(ErrNilAuthor, subs)
    ELSE UfResult(Nil, [subs EXCEPT ![StoredAddr(value.author)] = Append(@, seq)])

IxFrame ==
    /\ UNCHANGED <<graph, hopCount, feedWants, blocked, upd, runLog, deb, node>>
    /\ UNCHANGED <<fs, put, wmgr, proc, peers, run, ab, moreVars>>

\* a message is received (or an entry turns out unreadable) while the sbot
\* runs normally
RootAppend ==
    /\ ix.tool.pc = "idle"
    /\ Len(ix.root) < MaxRootLen
    /\ \E v \in RootValues : ix' = [ix EXCEPT !.root = Append(@, v)]
    /\ obs' = NoObs
    /\ IxFrame

\* the sink of the multilog is served: while the sbot is up, and again by
\* RebuildIndicies
SinkServed == ix.tool.pc \in {"idle", "nulled", "dropped"}

\* the sink takes the next entry of the root log: the cursor advances when
\* UserFeedsUpdate returns nil, the sink stops with the error otherwise
UfUpdate ==
    /\ SinkServed
    /\ ix.err = Nil
    /\ ix.cursor < Len(ix.root)
    /\ LET value == ix.root[ix.cursor + 1]
           r == UserFeedsUpdate(ix.cursor, value, ix.subs) IN
          /\ ix' = [ix EXCEPT !.subs = r.subs,
                              !.cursor = IF r.err = Nil THEN @ + 1 ELSE @,
                              !.err = r.err]
          /\ obs' = [NoObs EXCEPT !.op = "UserFeedsUpdate", !.kind = value.kind,
                                  !.remote = value.author, !.err = r.err,
                                  !.len = ix.cursor, !.maps = {ix.subs}]
    /\ IxFrame

\* the positions of the root log the sublog of a feed names
SublogPositions(i, feed) == {q + 1 : q \in {i.subs[StoredAddr(feed)][k] :
                                              k \in 1 .. Len(i.subs[StoredAddr(feed)])}}

\* Sbot.NullFeed(feed): every entry of the root log that the feed's sublog
\* names is replaced by the Nulled error, at its receive sequence
NullFeed(i, feed) ==
    [i EXCEPT !.root = [k \in 1 .. Len(i.root) |->
                           IF k \in SublogPositions(i, feed) THEN Nulled ELSE i.root[k]]]

\* ssb-drop-feed line 62-71: sbot.New and NullFeed of the feed
ToolNullFeed ==
    /\ ix.tool.pc = "idle"
    /\ \E feed \in Authors :
          ix' = [NullFeed(ix, feed) EXCEPT
                    !.tool = [pc |-> "nulled", feed |-> feed, before |-> ix.subs,
                              root0 |-> ix.root]]
    /\ obs' = NoObs
    /\ IxFrame

\* ssb-drop-feed line 73-75: Shutdown and Close; Close returns the error of
\* a stopped index (new.go line 80) and the tool gives up
ToolClose ==
    /\ ix.tool.pc = "nulled"
    /\ ix' = [ix EXCEPT !.tool.pc = IF ix.err = Nil THEN "closed" ELSE "failed"]
    /\ obs' = NoObs
    /\ IxFrame

\* ssb-drop-feed line 77-80: DropIndicies removes the multilog and its state
ToolDrop ==
    /\ ix.tool.pc = "closed"
    /\ ix' = [ix EXCEPT !.subs = [a \in Addrs |-> <<>>], !.cursor = 0, !.err = Nil,
                        !.tool.pc = "dropped"]
    /\ obs' = NoObs
    /\ IxFrame

\* ssb-drop-feed line 82-85: RebuildIndicies returns when the sinks have
\* taken the whole root log, or with the error that stopped one
ToolRebuilt ==
    /\ ix.tool.pc = "dropped"
    /\ ix.err # Nil \/ ix.cursor = Len(ix.root)
    /\ ix' = [ix EXCEPT !.tool.pc = "rebuilt"]
    /\ obs' = [NoObs EXCEPT !.op = "RebuildIndicies", !.err = ix.err]
    /\ IxFrame

InitIx ==
    /\ graph = EmptyGraph
    /\ hopCount = 0
    /\ feedWants = {}
    /\ blocked = {}
    /\ upd = UpdIdle
    /\ runLog = NoRun
    /\ deb = DebIdle
    /\ node = NodeIdle
    /\ obs = NoObs
    /\ fs = FsInit
    /\ put = [p \in Putters |-> PutIdle]
    /\ wmgr = WmgrInit
    /\ proc = ProcNone
    /\ PeersIdle
    /\ ix = IxInit
    /\ RestIdle

NextIx ==
    \/ RootAppend
    \/ UfUpdate
    \/ ToolNullFeed
    \/ ToolClose
    \/ ToolDrop
    \/ ToolRebuilt

SpecIx == InitIx /\ [][NextIx]_vars

(***************************************************************************)
(* The served indexes (sbot/new.go serveIndex and serveIndexFrom,          *)
(* sbot/manifest.go makeSinkIndex).  Every index keeps the sequence it has *)
(* processed in its own state.json, apart from the store of its derived    *)
(* state.  The runner feeds an index the entries of its source after the   *)
(* persisted sequence, in order: the update is made durable first and the  *)
(* state file is written afterwards.  A crash ends the process between any *)
(* two steps; files stay as they are and the restarted sbot opens them     *)
(* again.  The derived state of an index is kept as the log of the         *)
(* sequences its update function was applied to.                           *)
(***************************************************************************)
MaxRunLen == 3
MaxCrashes == 1

\* the message types in the receive log
MsgTypes == {"contact", "post"}

\* receive sequences start at 0
SeqsOf(log) == [k \in 1..Len(log) |-> k - 1]
TypeAt(root, seq) == root[seq + 1]

\* s.ByType.Get("string:contact"): the sequences the combined index has
\* appended to the sublog of the contact messages
ContactLog(r) ==
    SelectSeq(r.idx["combined"].derived, LAMBDA q : TypeAt(r.root, q) = "contact")

\* what an index reads: the receive log, or mutil.Indirect(ReceiveLog, contactLog)
SourceOf(r, i) == IF i = "combined" THEN SeqsOf(r.root) ELSE ContactLog(r)

\* the query of a sink: the entries after the sequence in its state file
AfterState(state, seq) == state = StateEmpty \/ seq > state[1]
Pending(r, i) == SelectSeq(SourceOf(r, i), LAMBDA q : AfterState(r.idx[i].state, q))

RunFrame ==
    /\ UNCHANGED <<graph, hopCount, feedWants, blocked, upd, runLog, deb, node>>
    /\ UNCHANGED <<fs, put, wmgr, proc, peers, ix, ab, moreVars>>
    /\ obs' = NoObs

\* a message is appended to the receive log
RunAppend ==
    /\ Len(run.root) < MaxRunLen
    /\ \E t \in MsgTypes : run' = [run EXCEPT !.root = Append(@, t)]
    /\ RunFrame

\* the update function of index i is applied to its next entry and the
\* derived state is stored
RunUpdate(i) ==
    /\ run.idx[i].pc = "idle"
    /\ Pending(run, i) # <<>>
    /\ LET seq == Head(Pending(run, i))
       IN  run' = [run EXCEPT !.idx[i].derived = Append(@, seq),
                              !.idx[i].pc = "updated",
                              !.idx[i].at = seq]
    /\ RunFrame

\* the sequence of the processed entry is written to state.json
RunSave(i) ==
    /\ run.idx[i].pc = "updated"
    /\ run' = [run EXCEPT !.idx[i].state = StateOf(run.idx[i].at),
                          !.idx[i].pc = "idle",
                          !.idx[i].at = 0]
    /\ RunFrame

\* the process dies and is started again: what was not written is lost
RunCrash ==
    /\ run.crashes < MaxCrashes
    /\ \E i \in Indexes : run.idx[i].pc = "updated"
    /\ run' = [run EXCEPT !.crashes = @ + 1,
                          !.idx = [i \in Indexes |->
                                      [run.idx[i] EXCEPT !.pc = "idle", !.at = 0]]]
    /\ RunFrame

InitRun ==
    /\ graph = EmptyGraph
    /\ hopCount = 0
    /\ feedWants = {}
    /\ blocked = {}
    /\ upd = UpdIdle
    /\ runLog = NoRun
    /\ deb = DebIdle
    /\ node = NodeIdle
    /\ obs = NoObs
    /\ fs = FsInit
    /\ put = [p \in Putters |-> PutIdle]
    /\ wmgr = WmgrInit
    /\ proc = ProcNone
    /\ PeersIdle
    /\ ix = IxInit
    /\ run = RunInit
    /\ ab = AbInit
    /\ MoreIdle

NextRun ==
    \/ RunAppend
    \/ \E i \in Indexes : RunUpdate(i)
    \/ \E i \in Indexes : RunSave(i)
    \/ RunCrash

SpecRun == InitRun /\ [][NextRun]_vars

(***************************************************************************)
(* The names plugin (plugins2/names/getSignifier.go).  ab is the sequence  *)
(* of about messages that carry a name, in the order the about index took  *)
(* them.  The about store aggregates them per target feed: the name the    *)
(* feed gave itself is chosen, the names other feeds gave it are           *)
(* prescribed.  getSignifier answers from that aggregate.                  *)
(***************************************************************************)
MaxAbouts == 3

SigNames == {"N1", "N2"}
AboutMsgs == [author : Authors, about : Authors, name : SigNames]

\* the names ref published about itself, oldest first
SelfNames(log, ref) == SelectSeq(log, LAMBDA m : m.about = ref /\ m.author = ref)

\* how many feeds' messages prescribed name n for ref
PrescribedCount(log, ref, n) ==
    Cardinality({k \in 1..Len(log) :
                    log[k].about = ref /\ log[k].author # ref /\ log[k].name = n})

\* aboutStore.CollectedFor(ref): Name.Chosen is "" while ref has not named
\* itself, Name.Prescribed counts the names others gave
CollectedFor(log, ref) ==
    LET self == SelfNames(log, ref)
    IN  [Name |->
            [Chosen |-> IF self = <<>> THEN "" ELSE self[Len(self)].name,
             Prescribed |-> [n \in {q \in SigNames : PrescribedCount(log, ref, q) > 0}
                                |-> PrescribedCount(log, ref, n)]]]

\* ref.Ref(), the name of last resort
RefName(ref) == ref.key

\* the names HandleAsync can return for ref: the chosen one; without it any
\* prescribed one (the first key a map iteration yields); without those
\* the ref itself
SignifierPrescribedFirst(ai, ref) ==
    IF DOMAIN ai.Name.Prescribed # {} THEN DOMAIN ai.Name.Prescribed
    ELSE IF ai.Name.Chosen # "" THEN {ai.Name.Chosen}
    ELSE {RefName(ref)}
Signifier(ai, ref) ==
    IF ai.Name.Chosen # "" THEN {ai.Name.Chosen}
    ELSE IF DOMAIN ai.Name.Prescribed # {} THEN DOMAIN ai.Name.Prescribed
    ELSE {RefName(ref)}

AbFrame ==
    /\ UNCHANGED <<graph, hopCount, feedWants, blocked, upd, runLog, deb, node>>
    /\ UNCHANGED <<fs, put, wmgr, proc, peers, ix, run, moreVars>>

\* the about index takes the next about message
AboutIndexed ==
    /\ Len(ab) < MaxAbouts
    /\ \E m \in AboutMsgs : ab' = Append(ab, m)
    /\ obs' = NoObs
    /\ AbFrame

\* names.getSignifier(ref) returns
GetSignifier(ref) ==
    /\ \E name \in Signifier(CollectedFor(ab, ref), ref) :
          obs' = [NoObs EXCEPT !.op = "getSignifier", !.remote = ref, !.kind = name]
    /\ UNCHANGED ab
    /\ AbFrame

InitAb == InitRun

NextAb ==
    \/ AboutIndexed
    \/ \E ref \in Authors : GetSignifier(ref)

SpecAb == InitAb /\ [][NextAb]_vars

(***************************************************************************)
(* The life cycle of one Sbot (sbot/new.go Close, Shutdown, mkHandler) and *)
(* the manifest call on its master handler (sbot/manifest.go).  Close and  *)
(* mkHandler run under closedMu; Close is followed statement by statement. *)
(* The index goroutines end when the root context is cancelled by Shutdown *)
(* or when their update function fails.                                    *)
(***************************************************************************)
ErrNetClose == "sbot: failed to close own network node"
ErrIdxGroup == "sbot: index group shutdown failed"
ErrClosers == "closers: failed to close"

BotFrame ==
    /\ UNCHANGED <<graph, hopCount, feedWants, blocked, upd, runLog, deb, node>>
    /\ UNCHANGED <<fs, put, wmgr, proc, peers, ix, run, ab, ovr, slp, gsp, prv, lastVars>>

\* plugins/groups New, line 34-56 of the plugin: the methods it registers,
\* all with RegisterAsync
GroupsMethods ==
    {[method |-> <<"groups", m>>, kind |-> "async"] : m \in {"create", "publishTo", "invite"}}

\* the methods registered on s.master whose names the sources give
MasterMethods == GroupsMethods \cup {[method |-> <<"manifest">>, kind |-> "sync"]}

Entries(prefix, kind, names) == {[method |-> prefix \o <<n>>, kind |-> kind] : n \in names}

\* manifestBlob, line 38-113: every path of the JSON object with its kind
ManifestBlob ==
    Entries(<<>>, "async", {"auth", "get", "add", "getLatest", "latestSequence", "publish"})
    \cup Entries(<<>>, "sync", {"address", "manifest", "whoami", "status"})
    \cup Entries(<<>>, "source",
                 {"createFeedStream", "createUserStream", "links", "latest",
                  "createSequenceStream", "createLogStream", "messagesByType",
                  "createHistoryStream", "tangles"})
    \cup Entries(<<>>, "sink", {"createWriteStream"})
    \cup Entries(<<"ebt">>, "duplex", {"replicate"})
    \cup Entries(<<"partialReplication">>, "source",
                 {"getFeed", "getFeedReverse", "getMessagesOfType"})
    \cup Entries(<<"partialReplication">>, "async", {"getTangle"})
    \cup Entries(<<"private">>, "source", {"read"})
    \cup Entries(<<"names">>, "async", {"get", "getImageFor", "getSignifier"})
    \cup Entries(<<"friends">>, "async", {"isFollowing", "isBlocking"})
    \cup Entries(<<"gossip">>, "async", {"connect"})
    \cup Entries(<<"gossip">>, "duplex", {"ping"})
    \cup Entries(<<"replicate">>, "source", {"upto"})
    \cup Entries(<<"blobs">>, "source", {"get", "ls", "createWants"})
    \cup Entries(<<"blobs">>, "sink", {"add"})
    \cup Entries(<<"blobs">>, "async", {"rm", "has", "size", "want"})

\* s.Shutdown(): the root context is cancelled
Shutdown ==
    /\ ~bot.shutdown
    /\ bot' = [bot EXCEPT !.shutdown = TRUE]
    /\ obs' = NoObs
    /\ BotFrame

\* an index goroutine ends: its live query ends with the cancelled context
IdxStop(i) ==
    /\ bot.shutdown
    /\ bot.idx[i] = "running"
    /\ bot' = [bot EXCEPT !.idx[i] = "done"]
    /\ obs' = NoObs
    /\ BotFrame

\* an index goroutine ends with the error of its update function
IdxFail(i) ==
    /\ bot.idx[i] = "running"
    /\ bot' = [bot EXCEPT !.idx[i] = "failed"]
    /\ obs' = NoObs
    /\ BotFrame

\* the listener accepts a connection; the connection is tracked and its
\* goroutine calls mkHandler, which waits for closedMu
Accept(c) ==
    /\ bot.net = "open"
    /\ bot.conn[c].pc = "none"
    /\ bot' = [bot EXCEPT !.conn[c] = [open |-> TRUE, pc |-> "waiting", handler |-> "nil"]]
    /\ obs' = NoObs
    /\ BotFrame

\* line 333: s.closedMu.Lock() in mkHandler
HandlerMayEnterAlways(c) == TRUE
HandlerMayEnter(c) == bot.closedMu = "free"

HandlerLock(c) ==
    /\ bot.conn[c].pc = "waiting"
    /\ HandlerMayEnter(c)
    /\ bot' = [bot EXCEPT !.conn[c].pc = "locked",
                          !.closedMu = IF @ = "free" THEN c ELSE @]
    /\ obs' = NoObs
    /\ BotFrame

\* line 336-389: mkHandler decides and returns, the deferred Unlock runs
HandlerReturn(c) ==
    /\ bot.conn[c].pc = "locked"
    /\ \E h \in {"master", "public", "nil"} :
          bot' = [bot EXCEPT
                    !.conn[c] = IF bot.conn[c].open /\ h # "nil"
                                THEN [open |-> TRUE, pc |-> "served", handler |-> h]
                                ELSE [open |-> FALSE, pc |-> "none", handler |-> "nil"],
                    !.closedMu = IF @ = c THEN "free" ELSE @]
    /\ obs' = NoObs
    /\ BotFrame

\* the peer hangs up
ConnGone(c) ==
    /\ bot.conn[c].pc = "served"
    /\ bot' = [bot EXCEPT !.conn[c] = [open |-> FALSE, pc |-> "none", handler |-> "nil"]]
    /\ obs' = NoObs
    /\ BotFrame

\* manifestHandler.HandleCall on a connection that has the master handler
ManifestCall(c) ==
    /\ bot.conn[c].pc = "served"
    /\ bot.conn[c].handler = "master"
    /\ obs' = [NoObs EXCEPT !.op = "manifest", !.maps = ManifestBlob]
    /\ UNCHANGED bot
    /\ BotFrame

\* line 61: s.closedMu.Lock() in Close
CloseLock(k) ==
    /\ bot.call[k].pc = "idle"
    /\ bot.closedMu = "free"
    /\ bot' = [bot EXCEPT !.closedMu = k,
                          !.call[k] = [pc |-> "check", was |-> bot.closed, steps |-> 0]]
    /\ obs' = NoObs
    /\ BotFrame

\* what the return of a Close call leaves: the lock is free, the first
\* return is remembered
Returned(b, k, err) ==
    [b EXCEPT !.closedMu = "free",
              !.call[k].pc = "idle",
              !.first = IF @ = <<>> THEN <<err>> ELSE @]

CloseObs(k, err, steps) ==
    [NoObs EXCEPT !.op = "Close", !.err = err, !.had = bot.call[k].was, !.len = steps]

\* line 64-69: a closed bot returns closeErr, else closed is set
AlreadyClosedNever(b) == FALSE
AlreadyClosed(b) == b.closed

CloseCheck(k) ==
    /\ bot.call[k].pc = "check"
    /\ IF AlreadyClosed(bot)
       THEN /\ bot' = Returned(bot, k, bot.closeErr)
            /\ obs' = CloseObs(k, bot.closeErr, bot.call[k].steps)
       ELSE /\ bot' = [bot EXCEPT !.closed = TRUE, !.call[k].pc = "net"]
            /\ obs' = NoObs
    /\ BotFrame

\* line 71-78: Network.Close, then CloseAll of the tracked connections
CloseNet(k) ==
    /\ bot.call[k].pc = "net"
    /\ \/ /\ bot' = Returned([bot EXCEPT !.closeErr = ErrNetClose, !.call[k].steps = @ + 1],
                             k, ErrNetClose)
          /\ obs' = CloseObs(k, ErrNetClose, bot.call[k].steps + 1)
       \/ /\ bot' = [bot EXCEPT
                       !.net = "closed",
                       !.conn = [c \in ConnIds |->
                                    IF bot.conn[c].pc = "served"
                                    THEN [open |-> FALSE, pc |-> "none", handler |-> "nil"]
                                    ELSE [bot.conn[c] EXCEPT !.open = FALSE]],
                       !.call[k].pc = "wait",
                       !.call[k].steps = @ + 1]
          /\ obs' = NoObs
    /\ BotFrame

\* line 80-84: s.idxDone.Wait() returns when every index goroutine has ended
IdxAllEndedAny == \E i \in IdxNames : bot.idx[i] # "running"
IdxAllEnded == \A i \in IdxNames : bot.idx[i] # "running"

CloseWait(k) ==
    /\ bot.call[k].pc = "wait"
    /\ IdxAllEnded
    /\ IF \E i \in IdxNames : bot.idx[i] = "failed"
       THEN /\ bot' = Returned([bot EXCEPT !.closeErr = ErrIdxGroup, !.call[k].steps = @ + 1],
                               k, ErrIdxGroup)
            /\ obs' = CloseObs(k, ErrIdxGroup, bot.call[k].steps + 1)
       ELSE /\ bot' = [bot EXCEPT !.call[k].pc = "closers", !.call[k].steps = @ + 1]
            /\ obs' = NoObs
    /\ BotFrame

\* line 86: s.closers.Close() starts to close the stores
CloseClosers(k) ==
    /\ bot.call[k].pc = "closers"
    /\ bot' = [bot EXCEPT !.stores = "closing", !.call[k].pc = "closing",
                          !.call[k].steps = @ + 1]
    /\ obs' = NoObs
    /\ BotFrame

\* line 86-92: the stores are closed; the error of a closer is recorded
CloseDone(k) ==
    /\ bot.call[k].pc = "closing"
    /\ \E err \in {Nil, ErrClosers} :
          /\ bot' = Returned([bot EXCEPT !.stores = "closed", !.closeErr = err], k, err)
          /\ obs' = CloseObs(k, err, bot.call[k].steps)
    /\ BotFrame

InitBot == InitRun

NextBot ==
    \/ Shutdown
    \/ \E i \in IdxNames : IdxStop(i)
    \/ \E i \in IdxNames : IdxFail(i)
    \/ \E c \in ConnIds : Accept(c)
    \/ \E c \in ConnIds : HandlerLock(c)
    \/ \E c \in ConnIds : HandlerReturn(c)
    \/ \E c \in ConnIds : ConnGone(c)
    \/ \E c \in ConnIds : ManifestCall(c)
    \/ \E k \in Closers : CloseLock(k)
    \/ \E k \in Closers : CloseCheck(k)
    \/ \E k \in Closers : CloseNet(k)
    \/ \E k \in Closers : CloseWait(k)
    \/ \E k \in Closers : CloseClosers(k)
    \/ \E k \in Closers : CloseDone(k)

SpecBot == InitBot /\ [][NextBot]_vars

\* the scheduler runs every goroutine that can take a step; a goroutine that
\* waits for closedMu gets it (sync.Mutex hands the lock to a starving waiter)
BotFair ==
    /\ \A i \in IdxNames : WF_vars(IdxStop(i))
    /\ \A c \in ConnIds : WF_vars(HandlerReturn(c))
    /\ \A k \in Closers :
          /\ SF_vars(CloseLock(k))
          /\ WF_vars(CloseCheck(k)) /\ WF_vars(CloseNet(k)) /\ WF_vars(CloseWait(k))
          /\ WF_vars(CloseClosers(k)) /\ WF_vars(CloseDone(k))

SpecBotLive == SpecBot /\ BotFair

(***************************************************************************)
(* EncodeSLP (private/box2/encoding.go).  A byte string is kept as its     *)
(* runs: a sequence of [b, n], n >= 1 bytes of value b, neighbouring runs  *)
(* of different values, so that strings of 2^16 bytes and more are values  *)
(* of the model and uint16 keeps its width.                                *)
(***************************************************************************)
MaxSlpList == 2

Run(b, n) == [b |-> b, n |-> n]

\* append(x, y...)
Cat(x, y) ==
    IF x = <<>> THEN y
    ELSE IF y = <<>> THEN x
    ELSE IF x[Len(x)].b = y[1].b
         THEN SubSeq(x, 1, Len(x) - 1) \o <<Run(y[1].b, x[Len(x)].n + y[1].n)>> \o Tail(y)
         ELSE x \o y

\* len(x)
RECURSIVE ByteLen(_)
ByteLen(x) == IF x = <<>> THEN 0 ELSE x[1].n + ByteLen(Tail(x))

\* the conversion uint16(n)
Uint16(n) == n % 65536

\* encodeUint16, line 11-15: the low byte first
EncodeUint16BigEndian(out, l) == Cat(Cat(out, <<Run(l \div 256, 1)>>), <<Run(l % 256, 1)>>)
EncodeUint16(out, l) == Cat(Cat(out, <<Run(l % 256, 1)>>), <<Run(l \div 256, 1)>>)

\* EncodeSLP, line 21-28
RECURSIVE EncodeSLP(_, _)
EncodeSLP(out, list) ==
    IF list = <<>> THEN out
    ELSE EncodeSLP(Cat(EncodeUint16(out, Uint16(ByteLen(list[1]))), list[1]), Tail(list))

\* the elements and the prefixes the calls of the model are made with: the
\* empty string, one byte, the two bytes 0 0, and strings of 2^16 - 1 and of
\* 2^16 bytes
SlpElems == {<<>>, <<Run(1, 1)>>, <<Run(0, 2)>>, <<Run(1, 65535)>>, <<Run(1, 65536)>>}
SlpOuts == {<<>>, <<Run(1, 1)>>}

RECURSIVE SlpListsOf(_)
SlpListsOf(n) ==
    IF n = 0 THEN {<<>>}
    ELSE LET shorter == SlpListsOf(n - 1)
         IN  shorter \cup {Append(l, e) : l \in {q \in shorter : Len(q) = n - 1}, e \in SlpElems}
SlpLists == SlpListsOf(MaxSlpList)

SlpFrame ==
    /\ UNCHANGED <<graph, hopCount, feedWants, blocked, upd, runLog, deb, node>>
    /\ UNCHANGED <<fs, put, wmgr, proc, peers, ix, run, ab, bot, ovr, gsp, prv, lastVars>>
    /\ obs' = NoObs

\* EncodeSLP(out, a...) and EncodeSLP(out, b...) return
SlpEncode ==
    /\ slp.pc = "called"
    /\ slp' = [slp EXCEPT !.pc = "returned",
                          !.ra = EncodeSLP(slp.out, slp.a),
                          !.rb = EncodeSLP(slp.out, slp.b)]
    /\ SlpFrame

InitSlp ==
    /\ graph = EmptyGraph
    /\ hopCount = 0
    /\ feedWants = {}
    /\ blocked = {}
    /\ upd = UpdIdle
    /\ runLog = NoRun
    /\ deb = DebIdle
    /\ node = NodeIdle
    /\ obs = NoObs
    /\ fs = FsInit
    /\ put = [p \in Putters |-> PutIdle]
    /\ wmgr = WmgrInit
    /\ proc = ProcNone
    /\ PeersIdle
    /\ ix = IxInit
    /\ run = RunInit
    /\ ab = AbInit
    /\ bot = BotInit
    /\ ovr = OvrInit
    /\ gsp = GspIdle
    /\ prv = PrvIdle
    /\ LastIdle
    /\ \E out \in SlpOuts : \E a \in SlpLists : \E b \in SlpLists :
          slp = [SlpIdle EXCEPT !.pc = "called", !.out = out, !.a = a, !.b = b]

NextSlp == SlpEncode

SpecSlp == InitSlp /\ [][NextSlp]_vars

(***************************************************************************)
(* Feed replication between two sbots (sbot/new.go line 443-464 wires the  *)
(* gossip plugin and the createHistoryStream handler to the receive log,   *)
(* the userFeeds multilog and the replicator's lister).  Each peer's task  *)
(* for the other's feed asks for the sequence after its tip; the other     *)
(* peer emits its messages from there in order; the receiver validates     *)
(* each message against its tip and appends it to its receive log, whose   *)
(* append the userFeeds sink indexes.                                      *)
(***************************************************************************)
\* the most messages the two peers publish together
MaxPublished == 3
\* the most times the connection breaks
MaxDrops == 1

OtherPeer(p) == CHOOSE q \in GPeers : q # p

\* message number sequence of the feed of author
FeedMsg(author, sequence) == [kind |-> "msg", author |-> author, sequence |-> sequence]

\* the messages of a feed as peer p holds them: its userFeeds sublog of the
\* author, resolved through its receive log (receive sequences count from 0)
FeedAt(p, author) ==
    [i \in 1..Len(gsp.users[p][StoredAddr(author)]) |->
        gsp.rx[p][gsp.users[p][StoredAddr(author)][i] + 1]]

\* tip(feed).sequence at a peer, 0 for a feed it has nothing of
TipSeq(p, author) ==
    IF FeedAt(p, author) = <<>> THEN 0
    ELSE FeedAt(p, author)[Len(FeedAt(p, author))].sequence

\* the receive log appends a message and its sink index handles it
RxAppend(g, p, msg) ==
    [g EXCEPT !.rx[p] = Append(@, msg),
              !.users[p] = UserFeedsUpdate(Len(g.rx[p]), msg, @).subs]

\* both peers have called Replicate for the other's feed
BothReplicate(g) == \A p \in GPeers : OtherPeer(p) \in g.wants[p]

\* history, written when a connection is made: whether both peers had called
\* Replicate by then, and if so what each of them had published
NoteHad(g) ==
    IF BothReplicate(g)
    THEN [g EXCEPT !.mutual = TRUE,
                   !.had = [p \in GPeers |-> Len(g.users[p][StoredAddr(p)])]]
    ELSE [g EXCEPT !.mutual = FALSE]

GspFrame ==
    /\ UNCHANGED <<graph, hopCount, feedWants, blocked, upd, runLog, deb, node>>
    /\ UNCHANGED <<fs, put, wmgr, proc, peers, ix, run, ab, bot, ovr, slp, prv, lastVars>>
    /\ obs' = NoObs

\* PublishLog.Publish: the next message of the own feed
GspPublish(p) ==
    /\ TipSeq(p, p) + TipSeq(OtherPeer(p), OtherPeer(p)) < MaxPublished
    /\ gsp' = RxAppend(gsp, p, FeedMsg(p, TipSeq(p, p) + 1))
    /\ GspFrame

\* Sbot.Replicate(the other peer's feed)
GspReplicate(p) ==
    /\ OtherPeer(p) \notin gsp.wants[p]
    /\ gsp' = [gsp EXCEPT !.wants[p] = @ \cup {OtherPeer(p)}]
    /\ GspFrame

\* Network.Connect of d to the other peer, which authorizes the dialer
GspConnect(d) ==
    /\ gsp.conn = "none"
    /\ Authorize(gsp.wants[OtherPeer(d)], {}, d) = Nil
    /\ gsp' = NoteHad([gsp EXCEPT !.conn = "open"])
    /\ GspFrame

\* the task of p for a feed in its wants opens createHistoryStream
GspRequestSeq(tip) == tip + 1

GspRequest(p) ==
    /\ gsp.conn = "open"
    /\ OtherPeer(p) \in gsp.wants[p]
    /\ gsp.st[p].pc = "idle"
    /\ \E live \in BOOLEAN :
          gsp' = [gsp EXCEPT !.st[p] = [pc |-> "open",
                                        next |-> GspRequestSeq(TipSeq(p, OtherPeer(p))),
                                        live |-> live, chan |-> <<>>]]
    /\ GspFrame

\* the other peer emits the next message of its feed on the stream of p
GspServe(p) ==
    /\ gsp.conn = "open"
    /\ gsp.st[p].pc = "open"
    /\ gsp.st[p].next <= TipSeq(OtherPeer(p), OtherPeer(p))
    /\ gsp' = [gsp EXCEPT !.st[p].chan = Append(@, FeedAt(OtherPeer(p), OtherPeer(p))[gsp.st[p].next]),
                          !.st[p].next = @ + 1]
    /\ GspFrame

\* a stream that is not live ends when the feed has no further message
GspServeEnd(p) ==
    /\ gsp.conn = "open"
    /\ gsp.st[p].pc = "open"
    /\ ~gsp.st[p].live
    /\ gsp.st[p].next > TipSeq(OtherPeer(p), OtherPeer(p))
    /\ gsp' = [gsp EXCEPT !.st[p].pc = "ending"]
    /\ GspFrame

\* p takes a message off the stream: it is appended if it is the successor
\* of the tip, otherwise the task for this feed terminates
GspReceive(p) ==
    /\ gsp.conn = "open"
    /\ gsp.st[p].pc \in {"open", "ending"}
    /\ gsp.st[p].chan # <<>>
    /\ LET msg == Head(gsp.st[p].chan)
       IN  IF msg.author = OtherPeer(p) /\ msg.sequence = TipSeq(p, OtherPeer(p)) + 1
           THEN gsp' = RxAppend([gsp EXCEPT !.st[p].chan = Tail(@)], p, msg)
           ELSE gsp' = [gsp EXCEPT !.st[p] = [@ EXCEPT !.pc = "failed", !.chan = <<>>]]
    /\ GspFrame

\* p reads the end of a stream that was not live
GspReceiveEnd(p) ==
    /\ gsp.conn = "open"
    /\ gsp.st[p].pc = "ending"
    /\ gsp.st[p].chan = <<>>
    /\ gsp' = [gsp EXCEPT !.st[p].pc = "ended"]
    /\ GspFrame

\* the connection breaks: what was in flight is lost and the tasks wait for
\* the next connection
GspDisconnect ==
    /\ gsp.conn = "open"
    /\ gsp.drops < MaxDrops
    /\ gsp' = [gsp EXCEPT !.conn = "none", !.drops = @ + 1, !.mutual = FALSE,
                          !.st = [p \in GPeers |-> [pc |-> "idle", next |-> 0,
                                                    live |-> FALSE, chan |-> <<>>]]]
    /\ GspFrame

InitGsp == InitRun

NextGsp ==
    \/ \E p \in GPeers : GspPublish(p)
    \/ \E p \in GPeers : GspReplicate(p)
    \/ \E d \in GPeers : GspConnect(d)
    \/ \E p \in GPeers : GspRequest(p)
    \/ \E p \in GPeers : GspServe(p)
    \/ \E p \in GPeers : GspServeEnd(p)
    \/ \E p \in GPeers : GspReceive(p)
    \/ \E p \in GPeers : GspReceiveEnd(p)
    \/ GspDisconnect

SpecGsp == InitGsp /\ [][NextGsp]_vars

\* the transport reconnects, the tasks and the streams make progress
GspFair ==
    /\ WF_vars(\E d \in GPeers : GspConnect(d))
    /\ \A p \in GPeers :
          /\ WF_vars(GspRequest(p))
          /\ WF_vars(GspServe(p))
          /\ WF_vars(GspReceive(p))

SpecGspLive == SpecGsp /\ GspFair

(***************************************************************************)
(* Private messages of one sbot (sbot/new.go line 400-411): the private    *)
(* plugin reads through an unboxer log over the sublog 'box1:' + own feed  *)
(* of the Privates multilog.  The Privates sink puts the receive sequence  *)
(* of a boxed message that unboxes for the local key into the sublog of    *)
(* its envelope scheme; a query reads the sublog in order, opens each      *)
(* message and ends with the end of stream.                                *)
(***************************************************************************)
\* the most entries the receive log gets
MaxPrvLog == 3

\* who a boxed message can be addressed to
PrvRecps == {{Self}, {Ref("B")}, {Self, Ref("B")}}

\* entry number n of the receive log: clear text, or boxed for recps
PrvMsg(n, author, kind, recps) ==
    [n |-> n, author |-> author, kind |-> kind, recps |-> recps]

\* the local key opens a boxed message that has a slot for it
Unboxes(msg) == msg.kind \in {"box1", "box2"} /\ Self \in msg.recps

\* the Privates sink: the sublog a message is indexed in, if any
PrivatesUpdate(privs, seq, msg) ==
    IF Unboxes(msg)
    THEN [privs EXCEPT ![PrivAddr(IF msg.kind = "box1" THEN "box1:" ELSE "box2:", Self)]
                            = Append(@, seq)]
    ELSE privs

\* new.go line 402: the sublog the private plugin's unboxer log is over
UserPrivsAddrBox2 == PrivAddr("box2:", Self)

UserPrivsAddr == PrivAddr("box1:", Self)

\* the receive log appends a message and the Privates sink handles it; a
\* stream that has just ended is no longer the call that just returned
PrvAppend(author, kind, recps) ==
    prv' = [prv EXCEPT
              !.rx = Append(@, PrvMsg(Len(prv.rx) + 1, author, kind, recps)),
              !.privs = PrivatesUpdate(@, Len(prv.rx),
                                       PrvMsg(Len(prv.rx) + 1, author, kind, recps)),
              !.rd.pc = IF @ = "eos" THEN "closed" ELSE @]

PrvFrame ==
    /\ UNCHANGED <<graph, hopCount, feedWants, blocked, upd, runLog, deb, node>>
    /\ UNCHANGED <<fs, put, wmgr, proc, peers, ix, run, ab, bot, ovr, slp, gsp, lastVars>>
    /\ obs' = NoObs

\* PublishLog.Publish of a clear-text message
PrvPublish ==
    /\ Len(prv.rx) < MaxPrvLog
    /\ PrvAppend(Self, "clear", {})
    /\ PrvFrame

\* private.publish: the content is boxed for the recipients
PrvPrivatePublish ==
    /\ Len(prv.rx) < MaxPrvLog
    /\ \E recps \in PrvRecps : PrvAppend(Self, "box1", recps)
    /\ PrvFrame

\* groups publishTo: the content is boxed with a group key the local key has
PrvGroupPublish ==
    /\ Len(prv.rx) < MaxPrvLog
    /\ PrvAppend(Self, "box2", {Self})
    /\ PrvFrame

\* a message of another feed arrives by replication
PrvReplicated ==
    /\ Len(prv.rx) < MaxPrvLog
    /\ \/ PrvAppend(Ref("B"), "clear", {})
       \/ \E recps \in PrvRecps : PrvAppend(Ref("B"), "box1", recps)
    /\ PrvFrame

\* private.read, or Query on an unboxer log over the user's sublog
PrvQuery(via) ==
    /\ prv.rd.pc \in {"none", "eos", "closed"}
    /\ prv' = [prv EXCEPT !.rd = [pc |-> "open", via |-> via, at |-> 0, out |-> <<>>]]
    /\ PrvFrame

\* src.Next: the next entry of the sublog, read from the receive log and
\* opened, or the end of stream
PrvNext ==
    /\ prv.rd.pc = "open"
    /\ IF prv.rd.at < Len(prv.privs[UserPrivsAddr])
       THEN prv' = [prv EXCEPT
                      !.rd.at = @ + 1,
                      !.rd.out = Append(@, prv.rx[prv.privs[UserPrivsAddr][prv.rd.at + 1] + 1])]
       ELSE prv' = [prv EXCEPT !.rd.pc = "eos"]
    /\ PrvFrame

InitPrv == InitRun

NextPrv ==
    \/ PrvPublish
    \/ PrvPrivatePublish
    \/ PrvGroupPublish
    \/ PrvReplicated
    \/ \E via \in {"private.read", "unboxlog.Query"} : PrvQuery(via)
    \/ PrvNext

SpecPrv == InitPrv /\ [][NextPrv]_vars

(***************************************************************************)
(* The locks of the want subsystem (blobstore/store.go): proc.l and wmgr.l *)
(* are sync.Mutex values, taken by wantProc.Pour, by the two change        *)
(* handlers that the store's broadcast calls inside Put and Delete, by     *)
(* Wants and by WantWithDist.  Four goroutines: a Pour call, a local Put   *)
(* or Delete call, the fetch goroutine that Pour starts, a WantWithDist    *)
(* call.  Lock() waits while another goroutine (or the caller itself)      *)
(* holds the mutex.                                                        *)
(***************************************************************************)
\* the most wants in one message of the peer
MaxWantMsg == 2

LockFrame ==
    /\ UNCHANGED <<graph, hopCount, feedWants, blocked, upd, runLog, deb, node>>
    /\ UNCHANGED <<fs, put, wmgr, proc, peers, ix, run, ab, bot, ovr, slp, gsp, prv>>
    /\ UNCHANGED <<num, pinv>>
    /\ obs' = NoObs

\* sync.Mutex
Free(l) == lk.held[l] = "none"
Acquire(l, g) == [lk EXCEPT !.held[l] = g]
ReleaseAll(state, g) ==
    [state EXCEPT !.held = [l \in Locks |-> IF state.held[l] = g THEN "none" ELSE state.held[l]]]

\* the mutex of each change handler: line 257 wmgr.l, line 350 proc.l
HandlerLockOf(h) == IF h = "wmgr" THEN "wmgr.l" ELSE "proc.l"

\* the mutexes a change handler takes while it holds its own mutex: the want
\* manager's handler (line 256-268) takes none; the wantProc's handler
\* (line 349-370) calls bs.Size and out.Pour, which take none of the two
HandlerInnerCrossed(h) == IF h = "wmgr" THEN {"proc.l"} ELSE {}

HandlerInner(h) == {}

\* line 393-396: wantProc.Pour is called with a message of the peer
PourCall ==
    /\ lk.pc["pour"] = "idle"
    /\ \E n \in 1..MaxWantMsg : lk' = [lk EXCEPT !.pc["pour"] = "lock", !.todo = n]
    /\ LockFrame

\* line 396: proc.l.Lock()
PourLock ==
    /\ lk.pc["pour"] = "lock"
    /\ Free("proc.l")
    /\ lk' = [Acquire("proc.l", "pour") EXCEPT !.pc["pour"] = "loop"]
    /\ LockFrame

\* line 402-418: the next entry: one with a negative distance is handled
\* with bs.Size and remoteWants, one with a size calls Wants
PourEntry ==
    /\ lk.pc["pour"] = "loop"
    /\ lk.todo > 0
    /\ \/ lk' = [lk EXCEPT !.todo = @ - 1]
       \/ lk' = [lk EXCEPT !.pc["pour"] = "wantsLock"]
    /\ LockFrame

\* line 287: Wants takes wmgr.l
PourWantsLock ==
    /\ lk.pc["pour"] = "wantsLock"
    /\ Free("wmgr.l")
    /\ lk' = [Acquire("wmgr.l", "pour") EXCEPT !.pc["pour"] = "wants"]
    /\ LockFrame

\* line 288-291 and 419-437: Wants returns; if the blob is wanted the fetch
\* goroutine is started (one at a time here)
PourWantsUnlock ==
    /\ lk.pc["pour"] = "wants"
    /\ \E wanted \in BOOLEAN :
          lk' = [lk EXCEPT !.held["wmgr.l"] = "none",
                           !.pc["pour"] = "loop",
                           !.todo = @ - 1,
                           !.pc["fetch"] = IF wanted /\ @ = "idle" THEN "put" ELSE @]
    /\ LockFrame

\* line 441-448: the answer is poured and Pour returns (defer Unlock)
PourReturn ==
    /\ lk.pc["pour"] = "loop"
    /\ lk.todo = 0
    /\ lk' = [ReleaseAll(lk, "pour") EXCEPT !.pc["pour"] = "idle"]
    /\ LockFrame

\* blobStore.Put or Delete of a local caller, up to the notification
LockStoreCall ==
    /\ lk.pc["store"] = "idle"
    /\ \E hs \in {{"wmgr"}, {"wmgr", "proc"}} :
          lk' = [lk EXCEPT !.pc["store"] = "notify", !.left["store"] = hs]
    /\ LockFrame

\* line 426: the fetch goroutine's Put, up to the notification
LockFetchPut ==
    /\ lk.pc["fetch"] = "put"
    /\ lk' = [lk EXCEPT !.pc["fetch"] = "notify", !.left["fetch"] = {"wmgr", "proc"}]
    /\ LockFrame

\* the broadcast calls a handler, which takes its mutex
HandlerEnter(g, h) ==
    /\ lk.pc[g] = "notify"
    /\ h \in lk.left[g]
    /\ Free(HandlerLockOf(h))
    /\ lk' = [Acquire(HandlerLockOf(h), g) EXCEPT !.pc[g] = h]
    /\ LockFrame

\* the handler runs and returns (defer Unlock); a mutex it takes on the way
\* has to be free
HandlerLeave(g, h) ==
    /\ lk.pc[g] = h
    /\ \A l \in HandlerInner(h) : Free(l)
    /\ lk' = [ReleaseAll(lk, g) EXCEPT !.pc[g] = "notify", !.left[g] = @ \ {h}]
    /\ LockFrame

\* line 156-160 and 181-185: every handler has run, Put or Delete returns
LockStoreReturn(g) ==
    /\ lk.pc[g] = "notify"
    /\ lk.left[g] = {}
    /\ lk' = [lk EXCEPT !.pc[g] = "idle"]
    /\ LockFrame

\* line 299-302: WantWithDist, bs.Get has failed
LockWantCall ==
    /\ lk.pc["want"] = "idle"
    /\ lk' = [lk EXCEPT !.pc["want"] = "lock"]
    /\ LockFrame

\* line 304: wmgr.l.Lock()
LockWantLock ==
    /\ lk.pc["want"] = "lock"
    /\ Free("wmgr.l")
    /\ lk' = [Acquire("wmgr.l", "want") EXCEPT !.pc["want"] = "set"]
    /\ LockFrame

\* line 307-311: the want is written and poured to the broadcast of the want
\* manager, which has no sink; WantWithDist returns (defer Unlock)
LockWantReturn ==
    /\ lk.pc["want"] = "set"
    /\ lk' = [ReleaseAll(lk, "want") EXCEPT !.pc["want"] = "idle"]
    /\ LockFrame

InitLock == InitRun

StoreGoroutines == {"store", "fetch"}
ChangeHandlers == {"wmgr", "proc"}

NextLock ==
    \/ PourCall
    \/ PourLock
    \/ PourEntry
    \/ PourWantsLock
    \/ PourWantsUnlock
    \/ PourReturn
    \/ LockStoreCall
    \/ LockFetchPut
    \/ \E g \in StoreGoroutines : \E h \in ChangeHandlers : HandlerEnter(g, h)
    \/ \E g \in StoreGoroutines : \E h \in ChangeHandlers : HandlerLeave(g, h)
    \/ \E g \in StoreGoroutines : LockStoreReturn(g)
    \/ LockWantCall
    \/ LockWantLock
    \/ LockWantReturn

\* a goroutine that can run does run; a mutex that is free again and again is
\* eventually given to a goroutine that waits for it
LockFair ==
    /\ SF_vars(PourLock) /\ SF_vars(PourWantsLock) /\ SF_vars(LockWantLock)
    /\ WF_vars(PourEntry) /\ WF_vars(PourWantsUnlock) /\ WF_vars(PourReturn) /\ WF_vars(LockFetchPut)
    /\ WF_vars(LockWantReturn)
    /\ \A g \in StoreGoroutines :
          /\ WF_vars(LockStoreReturn(g))
          /\ SF_vars(\E h \in ChangeHandlers : HandlerEnter(g, h))
          /\ \A h \in ChangeHandlers : SF_vars(HandlerLeave(g, h))

SpecLock == InitLock /\ [][NextLock]_vars /\ LockFair

(***************************************************************************)
(* The distances in remoteWants as the int64 values they are               *)
(* (blobstore/store.go line 402-416).  A 64-bit two's complement integer   *)
(* is kept as four 16-bit limbs, the most significant first, so that       *)
(* dist - 1 is computed modulo 2^64.                                       *)
(***************************************************************************)
\* the most messages the peer sends
MaxWantMsgs == 3

Limb == 65536

\* the int64 of an integer n with -32768 <= n < 32768
Int64Of(n) ==
    IF n >= 0 THEN <<0, 0, 0, n>> ELSE <<Limb - 1, Limb - 1, Limb - 1, Limb + n>>

MinInt64 == <<32768, 0, 0, 0>>
MaxInt64 == <<32767, Limb - 1, Limb - 1, Limb - 1>>

\* x < 0 for an int64: the sign bit is set
IsNeg64(x) == x[1] >= 32768

\* x < y for two int64
RECURSIVE LimbsLess(_, _, _)
LimbsLess(x, y, i) ==
    IF i > 4 THEN FALSE
    ELSE IF x[i] # y[i] THEN x[i] < y[i]
    ELSE LimbsLess(x, y, i + 1)

Less64(x, y) ==
    IF IsNeg64(x) # IsNeg64(y) THEN IsNeg64(x) ELSE LimbsLess(x, y, 1)

\* x - 1 for an int64: Go's subtraction wraps around
RECURSIVE Borrow(_, _)
Borrow(x, i) ==
    IF i = 0 THEN x
    ELSE IF x[i] > 0 THEN [x EXCEPT ![i] = @ - 1]
    ELSE Borrow([x EXCEPT ![i] = Limb - 1], i - 1)

Sub1(x) == Borrow(x, 4)

\* line 407: w.Dist - 1
RemoteDist64(dist) == Sub1(dist)

\* the distances and sizes a peer sends (any int64 the JSON number holds)
PeerDists ==
    {Int64Of(-1), Int64Of(-2), Sub1(MaxInt64), MinInt64, Int64Of(0), Int64Of(3), MaxInt64}

NumFrame ==
    /\ UNCHANGED <<graph, hopCount, feedWants, blocked, upd, runLog, deb, node>>
    /\ UNCHANGED <<fs, put, wmgr, proc, peers, ix, run, ab, bot, ovr, slp, gsp, prv>>
    /\ UNCHANGED <<lk, pinv>>
    /\ obs' = NoObs

\* a blob gets stored
NumPut ==
    /\ \E ref \in BlobRefs :
          /\ ref \notin num.has
          /\ num' = [num EXCEPT !.has = @ \cup {ref}]
    /\ NumFrame

\* line 402-416: Pour of one want of the peer: a negative distance for a
\* blob that is not stored is kept as dist - 1, for one that is stored the
\* entry is deleted; an entry that is not negative changes nothing here
NumPour ==
    /\ num.got < MaxWantMsgs
    /\ \E ref \in BlobRefs : \E dist \in PeerDists :
          num' = [num EXCEPT
                    !.got = @ + 1,
                    !.remoteWants =
                        IF ~IsNeg64(dist) THEN @
                        ELSE IF ref \in num.has THEN MapDel(@, ref)
                        ELSE MapSet(@, ref, RemoteDist64(dist))]
    /\ NumFrame

InitNum == InitRun

NextNum == NumPut \/ NumPour

SpecNum == InitNum /\ [][NextNum]_vars

(***************************************************************************)
(* Peer invites (unnamed/part_001).  The plugin's index maps a guest       *)
(* reference to true (an invite is open), false (confirmed) or nothing.    *)
(* The index function runs over the log in order; whether the caller goes  *)
(* on after an error of the function is the librarian's affair, the model  *)
(* lets it go on.  hist notes for every indexed message what it was.       *)
(***************************************************************************)
\* the most messages in the log
MaxInviteMsgs == 3

\* the content of a peer-invite message; an invite of NoRef is a message
\* without the field
InviteMsg(g) == [type |-> "peer-invite", invite |-> g, receipt |-> 0]

\* the content of a peer-invite/confirm message; the receipt is the key of
\* a message (its place in the log), 0 for none
ConfirmMsg(r) == [type |-> "peer-invite/confirm", invite |-> NoRef, receipt |-> r]

InviteMsgs ==
    {InviteMsg(g) : g \in Guests \cup {NoRef}} \cup {ConfirmMsg(r) : r \in 0..MaxInviteMsgs}

\* the remotes of a connection: GetFeedRefFromAddr gives a classic reference
InviteRemotes == {Ref("B"), Ref("C")}

\* h.g.Get: the message with the key, if it is in the store
Stored(msgs, r) == r \in 1..Len(msgs)

\* line 326-368: the new value of the guest's entry and the error
IndexNewInviteNoReuse(state, msg) ==
    IF msg.invite = NoRef THEN [state |-> state, err |-> "invalid invite"]
    ELSE IF state[msg.invite] # "unset"
         THEN [state |-> state, err |-> "invites: guest ID already in use"]
         ELSE [state |-> [state EXCEPT ![msg.invite] = "true"], err |-> Nil]
IndexNewInvite(state, msg) ==
    IF msg.invite = NoRef THEN [state |-> state, err |-> "invalid invite"]
    ELSE IF state[msg.invite] = "true"
         THEN [state |-> state, err |-> "invites: guest ID already in use"]
         ELSE [state |-> [state EXCEPT ![msg.invite] = "true"], err |-> Nil]

\* line 370-402: the receipt is looked up and its invite's entry set to
\* false; a receipt that names no invite is a nil dereference
IndexConfirm(state, msgs, msg) ==
    IF msg.receipt = 0 THEN [state |-> state, err |-> "invalid recipt on confirm msg"]
    ELSE IF ~Stored(msgs, msg.receipt) THEN [state |-> state, err |-> "not found"]
    ELSE IF msgs[msg.receipt].invite = NoRef THEN [state |-> state, err |-> "panic"]
    ELSE [state |-> [state EXCEPT ![msgs[msg.receipt].invite] = "false"], err |-> Nil]

\* line 310-322: the index function by message type
UpdateIndex(state, msgs, msg) ==
    IF msg.type = "peer-invite" THEN IndexNewInvite(state, msg)
    ELSE IF msg.type = "peer-invite/confirm" THEN IndexConfirm(state, msgs, msg)
    ELSE [state |-> state, err |-> Nil]

\* line 404-418
AuthorizeGuest(state, to) ==
    IF state[to] = "true" THEN Nil ELSE "not for us"

\* line 513: bytes.Equal(invCore.Invite.ID, guestRef.ID)
InviteMatchesAny(invite, guestRef) == TRUE
InviteMatches(invite, guestRef) == invite.key = guestRef.key

\* line 483-523: peerInvites.getInvite for the message key r
GetInvite(msgs, r, guestRef) ==
    IF r = 0 THEN [err |-> "failed to parse arguments", content |-> NoContent]
    ELSE IF ~Stored(msgs, r)
         THEN [err |-> "failed to get referenced message", content |-> NoContent]
    ELSE IF msgs[r].invite = NoRef THEN [err |-> "panic", content |-> NoContent]
    ELSE IF ~InviteMatches(msgs[r].invite, guestRef)
         THEN [err |-> "not your invite", content |-> NoContent]
    ELSE [err |-> Nil, content |-> msgs[r]]

\* what an indexed message was: an invite for a guest, a confirm of an
\* invite for a guest, or neither
EventOf(msgs, msg) ==
    IF msg.type = "peer-invite" /\ msg.invite # NoRef
    THEN [ev |-> "invite", guest |-> msg.invite]
    ELSE IF /\ msg.type = "peer-invite/confirm"
            /\ Stored(msgs, msg.receipt)
            /\ msgs[msg.receipt].invite # NoRef
         THEN [ev |-> "confirm", guest |-> msgs[msg.receipt].invite]
         ELSE [ev |-> "none", guest |-> NoRef]

PinvFrame ==
    /\ UNCHANGED <<graph, hopCount, feedWants, blocked, upd, runLog, deb, node>>
    /\ UNCHANGED <<fs, put, wmgr, proc, peers, ix, run, ab, bot, ovr, slp, gsp, prv>>
    /\ UNCHANGED <<lk, num>>
    /\ obs' = NoObs

\* a message is appended to the log
PinvAppend ==
    /\ ~pinv.crashed
    /\ Len(pinv.msgs) < MaxInviteMsgs
    /\ \E msg \in InviteMsgs :
          pinv' = [pinv EXCEPT !.msgs = Append(@, msg), !.last = NoCall]
    /\ PinvFrame

\* line 291-324: the index function runs on the next message of the log
PinvIndex ==
    /\ ~pinv.crashed
    /\ pinv.idx < Len(pinv.msgs)
    /\ LET msg == pinv.msgs[pinv.idx + 1]
           res == UpdateIndex(pinv.state, pinv.msgs, msg) IN
          pinv' = [pinv EXCEPT
                     !.state = res.state,
                     !.idx = @ + 1,
                     !.hist = Append(@, EventOf(pinv.msgs, msg)),
                     !.crashed = res.err = "panic",
                     !.last = [NoCall EXCEPT !.op = "index", !.type = msg.type,
                                             !.guest = msg.invite, !.err = res.err,
                                             !.before = pinv.state]]
    /\ PinvFrame

\* line 404-418: a connection of the guest is authorized or not
PinvAuthorize ==
    /\ ~pinv.crashed
    /\ \E to \in Guests :
          pinv' = [pinv EXCEPT
                     !.last = [NoCall EXCEPT !.op = "Authorize", !.guest = to,
                                             !.err = AuthorizeGuest(pinv.state, to)]]
    /\ PinvFrame

\* line 461-523: a remote calls peerInvites.getInvite
PinvGetInvite ==
    /\ ~pinv.crashed
    /\ \E remote \in InviteRemotes : \E r \in 0..MaxInviteMsgs :
          LET res == GetInvite(pinv.msgs, r, remote) IN
             pinv' = [pinv EXCEPT
                        !.crashed = res.err = "panic",
                        !.last = [NoCall EXCEPT !.op = "getInvite", !.remote = remote,
                                                !.ref = r, !.err = res.err,
                                                !.content = res.content]]
    /\ PinvFrame

InitPinv == InitRun

NextPinv == PinvAppend \/ PinvIndex \/ PinvAuthorize \/ PinvGetInvite

SpecPinv == InitPinv /\ [][NextPinv]_vars

(***************************************************************************)
(* Properties of the replicator, checked under SpecRepl.                   *)
(***************************************************************************)
Authorized(x) == Authorize(feedWants, blocked, x) = Nil

C3_HopsGating ==
    ( /\ runLog.st = "fresh"
      /\ runLog.fw0 = {}
      /\ runLog.bl0 = {}
      /\ graph = ChainGraph
      /\ hopCount = 2 ) =>
        /\ Authorized(Ref("B"))
        /\ Authorized(Ref("C"))
        /\ ~Authorized(Ref("D"))
        /\ ~Authorized(Ref("E"))

C3_Witness ==
    /\ runLog.st = "fresh"
    /\ runLog.fw0 = {}
    /\ runLog.bl0 = {}
    /\ graph = ChainGraph
    /\ hopCount = 2
    /\ feedWants = {Ref("B"), Ref("C")}

\* C5 (as stated): while an updater run is in progress (and nothing else
\* writes), a reader of feedWants and blocked sees the state before the run
\* or the state after it, never one in between.
C5_ReadersSeeBeforeOrAfter ==
    runLog.st = "clean" =>
        \/ <<feedWants, blocked>> = <<runLog.fw0, runLog.bl0>>
        \/ <<feedWants, blocked>> =
               <<UpdaterWants(runLog.fw0, graph, hopCount), UpdaterBlocked(graph)>>

(***************************************************************************)
(* Properties of lister.Authorize and mkHandler, checked under SpecNet.    *)
(***************************************************************************)
\* C2: Authorize(remote) returns an error whenever remote is blocked, also
\* when it is in feedWants too; for a remote that is not blocked it returns
\* nil iff remote is in feedWants.
C2_AuthorizeBlockedFirst ==
    obs.op = "Authorize" =>
        /\ obs.remote \in blocked => obs.err = ErrBlocked
        /\ obs.remote \notin blocked => (obs.err = Nil <=> obs.remote \in feedWants)

\* Authorize has just denied a feed that is blocked and wanted at once
C2_Witness ==
    /\ obs.op = "Authorize"
    /\ obs.remote \in blocked \cap feedWants
    /\ obs.err = ErrBlocked

\* the connection that mkHandler has just decided came, with promiscuous
\* mode off, from a remote that is not the local identity and holds no invite
GraphDecided ==
    /\ obs.op = "mkHandler"
    /\ obs.remote # NoRef
    /\ obs.remote # Self
    /\ ~node.promisc
    /\ InviteAuthorize(obs.remote) # Nil

\* the authorizer accepts the remote as a classic or as a gabby feed
AuthorizerAccepts(remote) ==
    \/ Authorize(feedWants, blocked, remote) = Nil
    \/ Authorize(feedWants, blocked, GabbyRef(remote.key)) = Nil

\* C6: with promiscuous mode off and no matching invite, a remote other than
\* the local identity gets a handler iff the authorizer accepts it as a
\* classic or as a gabby feed, or the listing of the stored feeds succeeds
\* and is empty (trust-on-first-use); otherwise the connection is rejected
\* with the authorizer's error.
C6_HandlerIffAuthorizedOrTofu ==
    GraphDecided =>
        LET accepted == AuthorizerAccepts(obs.remote)
                            \/ (obs.listOk /\ node.users = {}) IN
        /\ accepted => obs.handler = "public" /\ obs.err = Nil
        /\ ~accepted =>
              /\ obs.handler = "nil"
              /\ obs.err \in {ErrBlocked, ErrDenied}
              /\ obs.err = Authorize(feedWants, blocked, GabbyRef(obs.remote.key))

\* a remote was let in only because its gabby reference is wanted, and
\* (in another state) one was rejected while feeds are stored
C6_Witness ==
    /\ GraphDecided
    /\ node.users # {}
    /\ Authorize(feedWants, blocked, obs.remote) # Nil
    /\ GabbyRef(obs.remote.key) \in feedWants \ blocked
    /\ obs.handler = "public"

\* C7 (as stated): with promiscuous mode off a remote that is in the blocked
\* set is never given a handler, also when no feed is stored.
C7_BlockedNeverGetsHandler ==
    ( /\ obs.op = "mkHandler"
      /\ ~node.promisc
      /\ obs.remote \in blocked ) => obs.handler = "nil"

(***************************************************************************)
(* Properties of debounce, checked under SpecDeb.                          *)
(***************************************************************************)
\* debounce has come to rest: the loop waits in select, the timer is not
\* running and nothing waits in timer.C; only another append wakes it up
DebAtRest == deb.pc = "select" /\ ~deb.armed /\ ~deb.chan

\* C4 (as stated): every advance of the root log's sequence is eventually
\* followed by a recomputation by the updater, for every arrival pattern.
\* Stated as what it requires of the states in which debounce has come to
\* rest: no observed sequence is still waiting for its recomputation there.
C4_EveryTickRecomputed == DebAtRest => ~deb.pending

(***************************************************************************)
(* Properties of the blob store's files, checked under SpecFS.             *)
(***************************************************************************)
\* C8 (as stated): after any interleaving of Put and Delete calls, two Puts
\* with the same tmp path included, every visible file sha256/<hh>/<rest>
\* holds bytes whose SHA-256 is the reference its path encodes.
C8_VisibleBlobMatchesRef ==
    \A f \in fs : f.path.dir = "sha256" => Sha256(f.bytes) = f.path.name

(***************************************************************************)
(* Properties of the want manager, checked under SpecWant.                 *)
(***************************************************************************)
\* C9 (as stated): when a Put has returned a reference without an error,
\* that reference is not in the want manager's want map.
C9_PutRemovesWant ==
    (obs.op = "Put" /\ obs.err = Nil) => obs.ref \notin DOMAIN wmgr.wants

\* C10 (as stated): the first message written to the peer of a createWants
\* stream is written by wantProc.init, before any answer to the peer, and
\* is the want map as it was at some moment of the attachment.
C10_FirstMessageIsWantMap ==
    /\ proc.out # <<>> => proc.pc = "attached"
    /\ (obs.op = "CreateWants" /\ proc.out # <<>>) => proc.out[1] \in obs.maps

\* the message a wantProc answers with for a blob it has
SizeMsg(ref) == MapSet(NoWants, ref, Size(ref))

\* the call that has just returned wrote exactly one message, m
WroteOnly(m) == Len(proc.out) = obs.len + 1 /\ proc.out[Len(proc.out)] = m

\* the call that has just returned wrote nothing
WroteNothing == Len(proc.out) = obs.len

\* C11: wantProc.Pour of an entry {ref: dist} with dist < 0: when the store
\* holds ref the peer is answered {ref: size} (on a stream that takes the
\* message) and ref is not in remoteWants; otherwise nothing is written and
\* remoteWants[ref] = dist - 1.
C11_NegativeWantAnswered ==
    (obs.op = "Pour" /\ obs.dist < 0) =>
        IF HasBlob(obs.ref)
        THEN /\ obs.ref \notin DOMAIN proc.remoteWants
             /\ obs.sinkOk => WroteOnly(SizeMsg(obs.ref))
        ELSE /\ WroteNothing
             /\ obs.ref \in DOMAIN proc.remoteWants
             /\ proc.remoteWants[obs.ref] = obs.dist - 1

C11_Witness ==
    /\ obs.op = "Pour" /\ obs.dist < 0
    /\ HasBlob(obs.ref)
    /\ WroteOnly(SizeMsg(obs.ref))

\* C12 (as stated): wantProc.Pour of an entry {ref: size} with size >= 0
\* starts a fetch exactly when ref is wanted; and when the fetched bytes
\* hash to another reference, those bytes are not left visible in the store
\* (unless that blob was stored before) and ref stays wanted.
C12_FetchIffWantedMismatchDiscarded ==
    /\ (obs.op = "Pour" /\ obs.dist >= 0) =>
          (put[StoreCaller].pc = "fetch" <=> obs.ref \in DOMAIN wmgr.wants)
    /\ (obs.op = "Put" /\ obs.exp # 0 /\ obs.ref # obs.exp) =>
          /\ ~obs.had => ~HasBlob(obs.ref)
          /\ obs.exp \in DOMAIN wmgr.wants

\* C13: when the wantProc's change handler has run for a Put of ref, it has
\* written {ref: size of the stored blob} to its peer if remoteWants holds
\* ref (and the stream takes the message), and nothing otherwise.
C13_PutNotifiesWantingPeer ==
    obs.op = "ChangesPut" =>
        IF obs.ref \in DOMAIN proc.remoteWants
        THEN obs.sinkOk => WroteOnly(SizeMsg(obs.ref))
        ELSE WroteNothing

C13_Witness ==
    /\ obs.op = "ChangesPut"
    /\ obs.ref \in DOMAIN proc.remoteWants
    /\ WroteOnly(SizeMsg(obs.ref))

(***************************************************************************)
(* Properties of the blob exchange, checked under SpecXchg.                *)
(***************************************************************************)
\* every Want call was made, both wantProcs are attached, no message is in
\* flight and no fetch is running: nothing more happens
XchgAtRest ==
    \A p \in PeerIds :
        /\ peers[p].toWant = {}
        /\ peers[p].pc = "attached"
        /\ peers[p].inbox = <<>>
        /\ peers[p].fetching = {}

XchgDone ==
    \A p \in PeerIds : peers[p].has = {BlobX, BlobY} /\ peers[p].wants = NoWants

\* C14 (as stated): two connected peers that start with {X} and {Y} and
\* each call Want for X and Y end, with fair scheduling and reliable
\* streams, with both blobs in both stores and both want maps empty: once
\* the exchange has come to rest it is complete.
C14_ExchangeCompletes == XchgAtRest => XchgDone

(***************************************************************************)
(* Properties of the userFeeds multilog and of ssb-drop-feed, checked      *)
(* under SpecIx.                                                           *)
(***************************************************************************)
\* the sublogs before the call of UserFeedsUpdate that has just returned
SubsBefore == CHOOSE m \in obs.maps : TRUE

\* C15: UserFeedsUpdate of an entry that is the Nulled error returns nil and
\* changes no sublog, and the sink's cursor moves past the entry.
C15_NulledIsSkipped ==
    (obs.op = "UserFeedsUpdate" /\ obs.kind = "nulled") =>
        /\ obs.err = Nil
        /\ ix.subs = SubsBefore
        /\ ix.cursor = obs.len + 1

C15_Witness ==
    /\ obs.op = "UserFeedsUpdate" /\ obs.kind = "nulled"
    /\ ix.cursor = obs.len + 1

\* C16 (as stated): when ssb-drop-feed has run NullFeed(F), Shutdown, Close,
\* DropIndicies and RebuildIndicies, the rebuild has returned no error, the
\* sublog of F is empty, every other sublog holds the receive sequences it
\* held before (followed by those of entries it had not yet taken), and
\* every entry of the root log is at its receive sequence (unchanged, or
\* replaced by Nulled).
C16_DropFeedRebuilds ==
    ix.tool.pc = "rebuilt" =>
        /\ ix.err = Nil
        /\ ix.subs[StoredAddr(ix.tool.feed)] = <<>>
        /\ \A a \in Addrs \ {StoredAddr(ix.tool.feed)} :
              /\ Len(ix.subs[a]) >= Len(ix.tool.before[a])
              /\ SubSeq(ix.subs[a], 1, Len(ix.tool.before[a])) = ix.tool.before[a]
        /\ Len(ix.root) = Len(ix.tool.root0)
        /\ \A k \in 1 .. Len(ix.root) : ix.root[k] \in {ix.tool.root0[k], Nulled}

\* the receive sequences of the messages of an author among the first n
\* entries of the root log, in increasing order
SeqsOfAuthor(author, n) ==
    SelectSeq([k \in 1 .. n |-> k - 1], LAMBDA q : ix.root[q + 1] = MsgOf(author))

\* C17: when UserFeedsUpdate has processed a prefix of the root log (the
\* entries as they are, before NullFeed rewrites them or after the rebuild),
\* each author's sublog holds exactly the receive sequences of that author's
\* messages in the prefix, in increasing order; one call leaves the sublogs
\* of all other authors unchanged.
C17_SublogsMatchPrefix ==
    /\ ix.tool.pc \in {"idle", "dropped", "rebuilt"} =>
          \A a \in Authors : ix.subs[StoredAddr(a)] = SeqsOfAuthor(a, ix.cursor)
    /\ obs.op = "UserFeedsUpdate" =>
          \A a \in Authors : a # obs.remote =>
              ix.subs[StoredAddr(a)] = SubsBefore[StoredAddr(a)]

C17_Witness ==
    /\ obs.op = "UserFeedsUpdate"
    /\ ix.cursor >= 2
    /\ \A a \in Authors : ix.subs[StoredAddr(a)] # <<>>

\* C18 (as stated): UserFeedsUpdate returns nil for every entry, also for an
\* error that is not Nulled, a value of another type and a message without
\* author (storage never fails here).
C18_BadItemIsSkipped == obs.op = "UserFeedsUpdate" => obs.err = Nil

\* the entries of the receive log that index i is to process
ItemsOf(i) ==
    IF i = "combined" THEN SeqsOf(run.root)
    ELSE SelectSeq(SeqsOf(run.root), LAMBDA q : TypeAt(run.root, q) = "contact")

StrictlyIncreasing(log) == \A k \in 1..Len(log) - 1 : log[k] < log[k + 1]

\* C19: for every served index, the direct and the indirect one, the update
\* function has been applied to strictly increasing receive sequences; when
\* the index is between two entries its state file holds the last sequence
\* it processed; and, crashes and restarts included, its derived state holds
\* every entry of its source up to the persisted sequence exactly once.
C19_IndexExactlyOnce ==
    \A i \in Indexes :
        LET x == run.idx[i]
        IN  /\ StrictlyIncreasing(x.derived)
            /\ x.pc = "idle" =>
                  /\ x.derived = <<>> <=> x.state = StateEmpty
                  /\ x.derived # <<>> => x.state = StateOf(x.derived[Len(x.derived)])
                  /\ x.derived =
                        SelectSeq(ItemsOf(i), LAMBDA q : ~AfterState(x.state, q))

\* C20: when getSignifier(A) returns and A has published a name about
\* itself, the result is the name A chose for itself (its latest), whatever
\* names other feeds prescribed for A and wherever they stand in the log.
C20_SelfChosenWins ==
    (obs.op = "getSignifier" /\ SelfNames(ab, obs.remote) # <<>>) =>
        obs.kind = SelfNames(ab, obs.remote)[Len(SelfNames(ab, obs.remote))].name

\* getSignifier(A) has returned while another feed prescribed a different
\* name for A both before and after A named itself
C20_Witness ==
    /\ obs.op = "getSignifier"
    /\ Len(ab) = 3
    /\ ab[2].about = obs.remote /\ ab[2].author = obs.remote
    /\ \A k \in {1, 3} :
          ab[k].about = obs.remote /\ ab[k].author # obs.remote /\ ab[k].name # ab[2].name

\* C21: the manifest returned by the manifest call has an entry, with its
\* kind, for every method registered on the master handler.
C21_ManifestListsMasterMethods ==
    obs.op = "manifest" => \A m \in MasterMethods : m \in obs.maps

NoConnOpen == \A c \in ConnIds : ~bot.conn[c].open

\* C22: Close tears down in a fixed order.  Once a Close call waits for the
\* index goroutines the listener and every tracked connection are closed, and
\* while the stores are being closed or are closed no index goroutine runs
\* and no connection is open.
C22_CloseOrder ==
    /\ (\E k \in Closers : bot.call[k].pc \in {"wait", "closers", "closing"}) =>
          (bot.net = "closed" /\ NoConnOpen)
    /\ bot.stores # "open" =>
          /\ bot.net = "closed" /\ NoConnOpen
          /\ \A i \in IdxNames : bot.idx[i] \in {"done", "failed"}

\* the stores are being closed after a connection was closed by CloseAll
\* while its mkHandler call still waits
C22_Witness ==
    /\ bot.stores = "closing"
    /\ \E c \in ConnIds : bot.conn[c].pc = "waiting"

\* C29: Close is idempotent.  A call that found the bot closed returns the
\* error the first call returned and has run no teardown step; closeErr stays
\* what the first call recorded; after a first call that failed at the
\* network close the stores stay open and the index goroutines are not
\* waited for.
C29_CloseIdempotent ==
    /\ (obs.op = "Close" /\ obs.had) => (obs.err = bot.first[1] /\ obs.len = 0)
    /\ bot.first # <<>> => bot.closeErr = bot.first[1]
    /\ bot.first = <<ErrNetClose>> =>
          (bot.stores = "open" /\ \A k \in Closers : bot.call[k].pc \in {"idle", "check"})

\* a later Close call has returned the network error of the first call
C29_Witness == obs.op = "Close" /\ obs.had /\ obs.err = ErrNetClose

CloseRunning == \E k \in Closers : bot.call[k].pc # "idle"

\* C30: once Shutdown has been called a Close call in progress returns; and a
\* mkHandler call never holds closedMu while a Close call is in progress, so
\* it never runs while the stores are being closed.
C30_CloseReturnsHandlerWaits ==
    /\ [](\A c \in ConnIds :
            bot.conn[c].pc = "locked" => (~CloseRunning /\ bot.stores # "closing"))
    /\ \A k \in Closers :
          (bot.shutdown /\ bot.call[k].pc # "idle") ~> (bot.call[k].pc = "idle")

\* after Shutdown, a mkHandler call started during Close waits while the
\* stores are being closed
C30_Witness ==
    /\ bot.shutdown
    /\ bot.stores = "closing"
    /\ \E c \in ConnIds : bot.conn[c].pc = "waiting"
    /\ \E k \in Closers : bot.call[k].pc = "idle" /\ bot.first = <<>>

\* C27: the imperative overrides persist across recomputations.  Authorize is
\* denied for every feed Block was called for and Unblock was not called for
\* since, and a feed DontReplicate was called for is not in feedWants until
\* Replicate is called for it, whatever the updater has done in between.
C27_OverridesPersist ==
    /\ \A ref \in ovr.blk : ~Authorized(ref)
    /\ \A ref \in ovr.dont : ref \notin feedWants

\* C28: right after an updater run that nothing disturbed, feedWants is what
\* it was before the run plus the hops set minus the new blocked set; a feed
\* that was wanted before the run and is neither in the hops set nor blocked
\* is still wanted and still authorized.
C28_RunOnlyAddsHopsRemovesBlocked ==
    runLog.st = "fresh" =>
        /\ feedWants =
              (runLog.fw0 \cup Hops(graph, Self, hopCount)) \ BlockedList(graph, Self)
        /\ \A x \in runLog.fw0 \ (Hops(graph, Self, hopCount) \cup BlockedList(graph, Self)) :
              x \in feedWants /\ Authorized(x)

\* a run has ended after B was unfollowed: B is no longer in the hops set,
\* is not blocked, and is still wanted
C28_Witness ==
    /\ runLog.st = "fresh"
    /\ Ref("B") \in runLog.fw0
    /\ graph[<<Self, Ref("B")>>] = "none"
    /\ Ref("B") \notin Hops(graph, Self, hopCount)
    /\ Ref("B") \in feedWants
    /\ Hops(graph, Self, hopCount) # {}

\* C26: the work function is called only from the select case of a timer
\* value and only when a sequence was observed since the last call; every
\* observed sequence restarts the timer; and a timer value that is taken
\* when no sequence was observed since the last call calls nothing.
C26_DebounceCallsOnlyAfterSequence ==
    [][ /\ (deb.pc = "select" /\ deb'.pc = "work") =>
              (deb.chan /\ ~deb'.chan /\ deb.pending /\ ~deb'.pending)
        /\ (upd.pc = "idle" /\ upd'.pc # "idle") => (deb.pc = "select" /\ deb'.pc = "work")
        /\ deb'.root # deb.root => (deb'.armed /\ deb'.elapsed = 0)
        /\ (deb.chan /\ ~deb'.chan /\ ~deb.pending) => (deb'.pc = "select" /\ upd' = upd)
      ]_vars

\* the timer has fired after a sequence was appended and work has been
\* called; time had passed on the timer when that sequence restarted it
C26_Witness ==
    /\ deb.pc = "work"
    /\ upd.pc = "add"
    /\ deb.root >= 1
    /\ deb.seq = deb.root
    /\ ~deb.pending

\* the first n bytes of a byte string, and what follows them
RECURSIVE TakeBytes(_, _)
TakeBytes(x, n) ==
    IF n = 0 \/ x = <<>> THEN <<>>
    ELSE IF x[1].n <= n THEN <<x[1]>> \o TakeBytes(Tail(x), n - x[1].n)
    ELSE <<Run(x[1].b, n)>>

RECURSIVE DropBytes(_, _)
DropBytes(x, n) ==
    IF n = 0 \/ x = <<>> THEN x
    ELSE IF x[1].n <= n THEN DropBytes(Tail(x), n - x[1].n)
    ELSE <<Run(x[1].b, x[1].n - n)>> \o Tail(x)

ByteAt(x, k) == TakeBytes(DropBytes(x, k - 1), 1)[1].b

\* reading k elements back: two bytes of length, low byte first, then that
\* many bytes
RECURSIVE ReadSLP(_, _)
ReadSLP(x, k) ==
    IF k = 0 THEN <<>>
    ELSE LET l == ByteAt(x, 1) + 256 * ByteAt(x, 2)
             rest == DropBytes(x, 2)
         IN  <<TakeBytes(rest, l)>> \o ReadSLP(DropBytes(rest, l), k - 1)

RECURSIVE TotalLen(_)
TotalLen(list) == IF list = <<>> THEN 0 ELSE ByteLen(list[1]) + TotalLen(Tail(list))

AllShort(list) == \A k \in 1..Len(list) : ByteLen(list[k]) < 65536

\* C25: the result of EncodeSLP(out, list...) is out followed by nothing
\* else than, per element in order, its length in two bytes, low byte first,
\* and its bytes; lists of elements shorter than 2^16 bytes that differ have
\* different encodings; an element of 2^16 bytes or more gets the prefix
\* len mod 2^16.
C25_EncodeSLP ==
    slp.pc = "returned" =>
        LET body == DropBytes(slp.ra, ByteLen(slp.out))
        IN  /\ TakeBytes(slp.ra, ByteLen(slp.out)) = slp.out
            /\ ByteLen(body) = 2 * Len(slp.a) + TotalLen(slp.a)
            /\ AllShort(slp.a) => ReadSLP(body, Len(slp.a)) = slp.a
            /\ (AllShort(slp.a) /\ AllShort(slp.b) /\ slp.a # slp.b) => slp.ra # slp.rb
            /\ (slp.a # <<>>) =>
                  /\ ByteAt(body, 1) + 256 * ByteAt(body, 2) = ByteLen(slp.a[1]) % 65536
                  /\ TakeBytes(DropBytes(body, 2), ByteLen(slp.a[1])) = slp.a[1]

\* EncodeSLP has returned for a list that starts with an element of 2^16
\* bytes and for a different list of short elements
C25_Witness ==
    /\ slp.pc = "returned"
    /\ Len(slp.a) = 2
    /\ ByteLen(slp.a[1]) = 65536
    /\ AllShort(slp.b) /\ Len(slp.b) = 2 /\ slp.b[1] = <<>>
    /\ slp.out # <<>>


(***************************************************************************)
(* Properties of the feed replication between two sbots, checked under     *)
(* SpecGspLive.                                                            *)
(***************************************************************************)
\* what p holds of the other peer's feed is that feed's messages 1, 2, ... in
\* this order: none missing before the last one held, none twice
GspInOrder(p) ==
    \A i \in 1..Len(FeedAt(p, OtherPeer(p))) :
        FeedAt(p, OtherPeer(p))[i] = FeedMsg(OtherPeer(p), i)

\* p holds as many messages of the other peer as that peer had published
GspHoldsAll(p) == Len(FeedAt(p, OtherPeer(p))) >= gsp.had[OtherPeer(p)]

\* the peers are connected, and both had called Replicate when they connected
ReplicatingConnected == gsp.conn = "open" /\ gsp.mutual

\* C23: once two peers have each called Replicate for the other's feed and
\* are connected, each of them eventually holds in its userFeeds sublog of the
\* other every message the other had published by then; at all times what a
\* peer holds of the other's feed is in author-sequence order, with no
\* message missing in between and none twice.
C23_ReplicateEachOther ==
    /\ [](\A p \in GPeers : GspInOrder(p))
    /\ (ReplicatingConnected ~> (\A p \in GPeers : GspHoldsAll(p)))

\* one peer had published two messages and the other one before they
\* replicated, the connection broke in between, and each now holds all of
\* the other's messages
C23_Witness ==
    /\ ReplicatingConnected
    /\ gsp.drops > 0
    /\ \E p \in GPeers : gsp.had[p] = 2 /\ gsp.had[OtherPeer(p)] = 1
    /\ \A p \in GPeers :
          /\ Len(FeedAt(p, OtherPeer(p))) = gsp.had[OtherPeer(p)]
          /\ GspInOrder(p)


(***************************************************************************)
(* Properties of the private messages, checked under SpecPrv.              *)
(***************************************************************************)
\* the messages of the receive log that were privately published to the
\* local key, in receive order
PrivatelyToSelf(msg) == msg.kind = "box1" /\ Self \in msg.recps

\* one sequence is the beginning of another
IsPrefix(a, b) == Len(a) <= Len(b) /\ \A i \in 1..Len(a) : a[i] = b[i]

\* C24: private.read, and a query on the unboxer log over the 'box1:' +
\* own-feed sublog, yield messages that were privately published to the local
\* key, in receive order without gaps, and when the stream ends it has yielded
\* all of them: a clear-text message is never part of the result.
C24_PrivateReadExactly ==
    /\ prv.rd.pc \in {"open", "eos", "closed"} =>
          /\ IsPrefix(prv.rd.out, SelectSeq(prv.rx, PrivatelyToSelf))
          /\ \A i \in 1..Len(prv.rd.out) : prv.rd.out[i].kind # "clear"
    /\ prv.rd.pc = "eos" => prv.rd.out = SelectSeq(prv.rx, PrivatelyToSelf)

\* a stream has ended after it yielded a private message that came after a
\* clear-text message of the same feed
C24_Witness ==
    /\ prv.rd.pc = "eos"
    /\ prv.rd.out # <<>>
    /\ \E i \in 1..Len(prv.rx) : \E j \in 1..Len(prv.rx) :
          /\ i < j
          /\ prv.rx[i].kind = "clear" /\ prv.rx[i].author = Self
          /\ prv.rx[j] = prv.rd.out[Len(prv.rd.out)]
          /\ prv.rx[j].author = Self

(***************************************************************************)
(* Properties of mkHandler about the master handler, checked under         *)
(* SpecNet.                                                                *)
(***************************************************************************)
\* C31: mkHandler returns the master handler if and only if the remote's feed
\* reference equals the local key pair's id; any other remote gets the public
\* handler, the invite guest handler or none, whether the node is
\* promiscuous, has no stored feeds or has an open invite.
C31_MasterIffOwnIdentity ==
    obs.op = "mkHandler" =>
        /\ obs.handler = "master" <=> obs.remote = Self
        /\ obs.remote # Self => obs.handler \in {"public", "guest", "nil"}

\* the own identity got the master handler of a promiscuous node that has an
\* open invite and no stored feeds
C31_Witness ==
    /\ obs.op = "mkHandler"
    /\ obs.remote = Self
    /\ obs.handler = "master"
    /\ node.promisc
    /\ node.guests # {}
    /\ node.users = {}

(***************************************************************************)
(* Further properties of the blob store and the want subsystem, checked    *)
(* under SpecWant.                                                         *)
(***************************************************************************)
\* C32: when blobStore.Put returns an error, the set of visible blobs is as
\* it was before the call: a blob that was not visible before has not become
\* visible through a Put that reported a failure (a failure of a notification
\* handler included).
C32_FailedPutLeavesNoBlob ==
    (obs.op = "Put" /\ obs.err # Nil /\ ~obs.had) => ~HasBlob(obs.ref)

\* C33: no blob reference is in the local blob store and in the want map at
\* the same time, once the store call that made the blob visible has returned;
\* WantWithDist may run concurrently with the Put.
C33_NeverStoredAndWanted ==
    put[StoreCaller].pc = "idle" =>
        \A ref \in BlobRefs : ~(HasBlob(ref) /\ ref \in DOMAIN wmgr.wants)

(***************************************************************************)
(* Properties of the locks of the want subsystem, checked under SpecLock.  *)
(***************************************************************************)
\* a goroutine that is in none of the operations holds neither mutex
IdleHoldsNothing ==
    \A g \in Goroutines : lk.pc[g] = "idle" => \A l \in Locks : lk.held[l] # g

\* C34: the locks of the want subsystem never deadlock: whatever the
\* interleaving of wantProc.Pour, the change handlers run inside Put and
\* Delete, the fetch goroutine's Put and WantWithDist, every operation that
\* has started eventually returns, and it holds no lock once it has returned.
C34_LocksNeverDeadlock ==
    /\ []IdleHoldsNothing
    /\ \A g \in Goroutines : (lk.pc[g] # "idle") ~> (lk.pc[g] = "idle")

\* Pour holds proc.l and waits for wmgr.l, which WantWithDist holds, while a
\* Put waits for a change handler's mutex and the fetch goroutine is in a
\* handler of its own
C34_Witness ==
    /\ lk.held["proc.l"] = "pour"
    /\ lk.pc["pour"] = "wantsLock"
    /\ lk.held["wmgr.l"] = "want"
    /\ lk.pc["store"] = "notify" /\ lk.left["store"] # {}
    /\ lk.pc["fetch"] = "notify"

\* C35: every value in the local want map is negative, whatever Want and
\* WantWithDist(ref, dist) calls were made.  Checked under SpecWantDist.
C35_WantValuesNegative ==
    \A ref \in DOMAIN wmgr.wants : wmgr.wants[ref] < 0

(***************************************************************************)
(* Properties of the recorded distances, checked under SpecNum.            *)
(***************************************************************************)
\* C36: every value stored in a wantProc's remoteWants is at most -2: for
\* each received want dist < 0 the recorded dist - 1 is negative for all
\* 64-bit inputs, the smallest int64 included.
C36_RemoteWantsAtMostMinusTwo ==
    \A ref \in DOMAIN num.remoteWants :
        ~Less64(Int64Of(-2), num.remoteWants[ref])

\* C37: a wantProc's change handler acts on Put notifications only: for a
\* Delete (rm) notification of any ref, one still listed in remoteWants
\* included, the handler sends nothing and returns no error, so Delete of
\* an existing blob returns nil.  Checked under SpecWant.
C37_RmNotificationIgnored ==
    /\ obs.op = "ChangesRm" =>
          /\ Len(proc.out) = obs.len
          /\ \A p \in DOMAIN put : put[p].op = "rm" => put[p].err = Nil
    /\ obs.op = "Delete" => obs.err = Nil

(***************************************************************************)
(* Properties of the peer invites, checked under SpecPinv.                 *)
(***************************************************************************)
\* an invite for g is among the first n indexed messages and no confirm of
\* an invite for g comes after it
OpenInvite(g, n) ==
    \E i \in 1..n :
        /\ pinv.hist[i] = [ev |-> "invite", guest |-> g]
        /\ \A j \in (i + 1)..n : pinv.hist[j] # [ev |-> "confirm", guest |-> g]

\* C38: Authorize(guest) succeeds if and only if a peer-invite for guest
\* has been indexed and no peer-invite/confirm for it since; after a
\* confirm a new peer-invite for the guest is accepted; a peer-invite for a
\* guest whose invite is still open is rejected with 'guest ID already in
\* use' and leaves the state unchanged.
C38_InviteStatePerGuest ==
    /\ pinv.last.op = "Authorize" =>
          (pinv.last.err = Nil <=> OpenInvite(pinv.last.guest, pinv.idx))
    /\ (pinv.last.op = "index" /\ pinv.last.type = "peer-invite"
            /\ pinv.last.guest # NoRef) =>
          IF OpenInvite(pinv.last.guest, pinv.idx - 1)
          THEN /\ pinv.last.err = "invites: guest ID already in use"
               /\ pinv.state = pinv.last.before
          ELSE /\ pinv.last.err = Nil
               /\ pinv.state[pinv.last.guest] = "true"

\* an invite is accepted for a guest whose earlier invite was confirmed
C38_Witness ==
    /\ pinv.last.op = "index"
    /\ pinv.last.type = "peer-invite"
    /\ pinv.last.err = Nil
    /\ [ev |-> "confirm", guest |-> pinv.last.guest] \in
          {pinv.hist[i] : i \in 1..(pinv.idx - 1)}

\* C39: peerInvites.getInvite returns the content of the referenced message
\* only when the invite key named in it equals the key of the connection's
\* remote; for every other remote the call is closed with 'not your
\* invite' and nothing is returned.
C39_GetInviteOnlyForGuest ==
    pinv.last.op = "getInvite" =>
        /\ pinv.last.content # NoContent =>
              /\ Stored(pinv.msgs, pinv.last.ref)
              /\ pinv.last.content = pinv.msgs[pinv.last.ref]
              /\ pinv.last.content.invite.key = pinv.last.remote.key
        /\ (/\ Stored(pinv.msgs, pinv.last.ref)
            /\ pinv.msgs[pinv.last.ref].invite # NoRef
            /\ pinv.msgs[pinv.last.ref].invite.key # pinv.last.remote.key) =>
              /\ pinv.last.err = "not your invite"
              /\ pinv.last.content = NoContent

\* a remote is refused the invite of another key
C39_Witness ==
    /\ pinv.last.op = "getInvite"
    /\ pinv.last.err = "not your invite"
    /\ pinv.last.remote = Ref("C")

\* C40: names.getSignifier is a deterministic function of the about state:
\* two calls for the same feed on the same collected about information
\* return the same name, also for a feed without a self-chosen name and
\* with several prescribed names; the result is never the empty string.
\* Checked under SpecAb.
C40_SignifierDeterministic ==
    /\ [](obs.op = "getSignifier" => obs.kind # "")
    /\ [][(/\ obs.op = "getSignifier"
           /\ obs'.op = "getSignifier"
           /\ obs'.remote = obs.remote
           /\ ab' = ab) => obs'.kind = obs.kind]_vars

====
